---- MODULE Spec2Model ----
(***************************************************************************)
(* Simulation cores of the deplauncher game engines.                       *)
(*                                                                         *)
(* The repository holds four builds of the same core:                      *)
(*   "1.8"  src/game_engine_1.8.c   web engine, classic edition            *)
(*   "18"   src/game_engine_18.c    classic engine                         *)
(*   "1.12" src/game_engine_1.12.c  web engine, enhanced edition           *)
(*   "112"  src/game_engine_112.c   advanced engine                        *)
(* One build runs at a time; the variable variant says which.              *)
(*                                                                         *)
(* Units.  Time is in milliseconds, a delta-time in milliseconds, a        *)
(* position in 1/1000 of a canvas unit, a velocity in 1/1000 of a canvas   *)
(* unit per second, a rolling average frame time in microseconds.  Floats  *)
(* are fixed-point integers, rounded toward zero.                          *)
(*                                                                         *)
(* Not carried: rotation, size, colour, texture tables, the fps counters   *)
(* (fps_counter, frame_accumulator, current_fps), the smoothing and shake *)
(* of the 1.8 camera, mouse and touch input.  No handler of the model      *)
(* reads them.                                                             *)
(***************************************************************************)
EXTENDS Integers, Sequences, FiniteSets, TLC

VARIABLES
    variant,      \* the build that runs: "1.8", "18", "1.12" or "112"
    alloc,        \* g_web_game_state / g_game_state is not NULL
    initialized,  \* g_web_initialized / g_initialized
    g,            \* the game state struct the pointer refers to
    st,           \* file-scope and function-scope statics
    now,          \* the host clock (emscripten_get_now), ms
    ticks,        \* frame callbacks delivered so far
    obs,          \* the last exported call: name, result, what it ran
    hist          \* the governor's last level change and the evaluations since

vars == <<variant, alloc, initialized, g, st, now, ticks, obs, hist>>

(***************************************************************************)
(* Bounds of the model.  The capacities, cadences and cooldowns of the     *)
(* source are scaled down so that full pools, compaction passes and        *)
(* elapsed cooldowns occur within MaxTicks frames.                         *)
(***************************************************************************)
MAX_ENTITIES == 3
MAX_PARTICLES == 3
MaxTicks == 3

\* Scaled program constants (value in the source in parentheses).
BufLen == 2            \* g_frame_time_buffer[60]
DownCooldown == 1      \* 1.8: 180 frames after a decrease
UpCooldown == 2        \* 1.8: 300 frames after an increase
CleanupPeriod == 2     \* 1.8: entity cleanup every 300 frames
CompactPeriod == 2     \* particle compaction every 120 (1.8), 60 (1.12) frames
InitEnvCount == 1      \* environment entities at init: 15 (1.8), 10 (18), 30 (1.12)
ResetEnvCount == 1     \* 1.8: 10 environment entities at reset
BurstCap == 2          \* 1.8: at most 20 particles per burst
MaxTicks_v112 == 4
DownCooldown_v112 == 1 \* 1.12: 60 frames after a decrease
UpCooldown_v112 == 2   \* 1.12: 180 frames after an increase
GridCellCap == 2       \* 1.12: 16 entities per grid cell
ParticleLife == 45     \* ms; 1000 .. 2500 in 1.8

\* Program constants.
CANVAS_WIDTH == 800000
CANVAS_HEIGHT == 600000
COLLISION_RADIUS == 28000
MOVE_SPEED == 180
FRICTION_PCT == 92
MAX_FRAME_TIME_US == 16670
MAX_DELTA_MS == 33
WRAP_MARGIN == 32000
BOUNCE_FORCE == 120
COLLISION_SCORE == 10
COLLISION_BURST == 3
MIN_DISTANCE == 100
COLLISION_RADIUS_18 == 32000
BOUNCE_FORCE_18 == 100
PHYSICS_SUBSTEPS == 2
CANVAS_WIDTH_v112 == 1920000
CANVAS_HEIGHT_v112 == 1080000
GRID_SIZE == 8
CELL_SIZE == 240000
BOUNCE_v112 == 75
COLLISION_SCORE_v112 == 5
MOVE_SPEED_v112 == 400
PHYSICS_SUBSTEPS_adv == 4

\* Inputs of the host.
Gaps == {10, 5000}                   \* ms between two frame callbacks
KeyCodes == {68, 32}                 \* D, Space
QualityArgs == {-1, 1, 3}
GraphicsArgs == {0, 1, 3}
BurstCounts == {0, 1, 5}
ParticleLives == {ParticleLife}
ParticleSpeeds == {60000}
EnvPositions == {<<420000, 300000>>}
EnvVelocities == {<<-15000, 0>>}
EnvTextures == {1}
AddPositions == {<<410000, 300000>>}
AddTags == {"", "Player"}
FrameCosts == {5000, 25000}          \* microseconds spent inside one tick
EnvPositions_v112 == {<<970000, 540000>>}
EnvPositions_adv == {<<970000, 540000, 10000>>}
ObjNames == <<"Obj_0", "Obj_1", "Obj_2", "Obj_3", "Obj_4", "Obj_5", "Obj_6", "Obj_7",
              "Obj_8", "Obj_9", "Obj_10", "Obj_11", "Obj_12", "Obj_13", "Obj_14">>
EnvSpacing == CANVAS_WIDTH \div 20

\* The values one call draws from rand().
EntityRnd == [pos : EnvPositions, vel : EnvVelocities, tex : EnvTextures]
ParticleRnd == [life : ParticleLives, speed : ParticleSpeeds]

(***************************************************************************)
(* Arithmetic                                                              *)
(***************************************************************************)
Abs(x) == IF x < 0 THEN -x ELSE x
Min(a, b) == IF a < b THEN a ELSE b
Max(a, b) == IF a > b THEN a ELSE b

\* v * n / d, rounded toward zero.
MulDiv(v, n, d) == IF v * n >= 0 THEN (v * n) \div d ELSE -((-(v * n)) \div d)

RECURSIVE SqrtIter(_, _, _)
SqrtIter(n, lo, hi) ==
    IF lo >= hi THEN lo
    ELSE LET mid == (lo + hi + 1) \div 2
         IN IF mid * mid <= n THEN SqrtIter(n, mid, hi)
                              ELSE SqrtIter(n, lo, mid - 1)

\* sqrtf on a non-negative integer below 2^31.
ISqrt(n) == SqrtIter(n, 0, 46340)

\* sinf, argument in milliradians, result in 1/1000 (Bhaskara's formula).
SinPm(x) ==
    LET r == x % 6283
        h == IF r < 3142 THEN r ELSE r - 3142
        a == (h * (3142 - h)) \div 1000
        s == (16000 * a) \div (49348 - 4 * a)
    IN IF r < 3142 THEN s ELSE -s

CosPm(x) == SinPm(x + 1571)

(***************************************************************************)
(* game_engine_1.8.c: vectors                                              *)
(***************************************************************************)
web_vec2_create(x, y) == [x |-> x, y |-> y]
web_vec2_add(a, b) == [x |-> a.x + b.x, y |-> a.y + b.y]
web_vec2_subtract(a, b) == [x |-> a.x - b.x, y |-> a.y - b.y]
\* v * (n / d)
web_vec2_multiply_scalar(v, n, d) == [x |-> MulDiv(v.x, n, d), y |-> MulDiv(v.y, n, d)]
web_clamp(value, min_val, max_val) ==
    IF value < min_val THEN min_val ELSE IF value > max_val THEN max_val ELSE value

ZeroVec == web_vec2_create(0, 0)
Center == web_vec2_create(CANVAS_WIDTH \div 2, CANVAS_HEIGHT \div 2)

(***************************************************************************)
(* game_engine_1.8.c: the state struct after memset(0)                     *)
(***************************************************************************)
ZeroEntity ==
    [position |-> ZeroVec, velocity |-> ZeroVec, health |-> 0, texture_id |-> 0,
     active |-> FALSE, name |-> "", tag |-> ""]

ZeroParticle ==
    [position |-> ZeroVec, velocity |-> ZeroVec, life |-> 0, active |-> FALSE]

ZeroWebGameState ==
    [entities |-> [i \in 0 .. MAX_ENTITIES - 1 |-> ZeroEntity],
     particles |-> [i \in 0 .. MAX_PARTICLES - 1 |-> ZeroParticle],
     entity_count |-> 0,
     particle_count |-> 0,
     camera |-> [target |-> ZeroVec],
     performance |-> [last_frame_time |-> 0, average_frame_time_ms |-> 0,
                      quality_level |-> 0, adaptive_quality |-> FALSE],
     input |-> [keys |-> {}],
     score |-> 0,
     paused |-> FALSE,
     debug_mode |-> FALSE]

ZeroStatics ==
    [g_quality_adjustment_timer |-> 0,
     g_frame_time_buffer |-> [i \in 0 .. BufLen - 1 |-> 0],
     g_frame_time_index |-> 0,
     cleanup_timer |-> 0,
     compact_timer |-> 0]

\* What a call reports: op the export, ret its result, arg its argument, dt
\* the delta-time it handed to the systems (-1: none), q0 the quality level
\* at entry, q the quality level that gated the systems, tr the systems it
\* ran, in order, pairs the entity pairs that got the collision response, in
\* order, before and after the live entities on entry to and on return from
\* its compaction pass, out the records an export call wrote, each with the
\* slot it was read from.
Obs(op, ret, arg, m) ==
    [op |-> op, ret |-> ret, arg |-> arg, dt |-> m.dt, q0 |-> m.q0, q |-> m.q,
     tr |-> m.tr, pairs |-> m.pairs, before |-> m.before, after |-> m.after,
     out |-> m.out]
NoRun == [dt |-> -1, q0 |-> -1, q |-> -1, tr |-> <<>>, pairs |-> <<>>,
          before |-> <<>>, after |-> <<>>, out |-> <<>>]

\* entities[0 .. entity_count - 1] as a sequence.
LiveSeq(gs) == [k \in 1 .. gs.entity_count |-> gs.entities[k - 1]]

\* The governor's history: n the cool-down its last level change set (0: no
\* change yet), since the number of its evaluations after that change.
NoHist == [n |-> 0, since |-> 0]
Governed(h, m, down, up) ==
    IF m.dt < 0 THEN h
    ELSE IF m.q < m.q0 THEN [n |-> down, since |-> 0]
    ELSE IF m.q > m.q0 THEN [n |-> up, since |-> 0]
    ELSE [h EXCEPT !.since = IF h.since < h.n THEN h.since + 1 ELSE h.since]

(***************************************************************************)
(* game_engine_1.8.c: entity store                                         *)
(***************************************************************************)
\* Returns the struct and the index of the new entity, -1 for NULL.
\* create_web_entity with the capacity test off by one.
create_web_entity_over(a, gs, position, texture_id, name) ==
    IF ~a \/ gs.entity_count > MAX_ENTITIES
    THEN [g |-> gs, ret |-> -1]
    ELSE [g |-> [gs EXCEPT !.entity_count = gs.entity_count + 1],
          ret |-> gs.entity_count]

\* create_web_entity without the assignments to velocity and health.
create_web_entity_stale(a, gs, position, texture_id, name) ==
    IF ~a \/ gs.entity_count >= MAX_ENTITIES
    THEN [g |-> gs, ret |-> -1]
    ELSE LET i == gs.entity_count
         IN [g |-> [gs EXCEPT !.entity_count = i + 1,
                              !.entities[i].position = position,
                              !.entities[i].texture_id = texture_id,
                              !.entities[i].active = TRUE,
                              !.entities[i].name = name,
                              !.entities[i].tag = "Default"],
             ret |-> i]

create_web_entity(a, gs, position, texture_id, name) ==
    IF ~a \/ gs.entity_count >= MAX_ENTITIES
    THEN [g |-> gs, ret |-> -1]
    ELSE LET i == gs.entity_count
             e == [position |-> position, velocity |-> ZeroVec, health |-> 100,
                   texture_id |-> texture_id, active |-> TRUE, name |-> name,
                   tag |-> "Default"]
         IN [g |-> [gs EXCEPT !.entity_count = i + 1, !.entities[i] = e],
             ret |-> i]

RECURSIVE FindByTag(_, _, _)
FindByTag(gs, tag, i) ==
    IF i >= gs.entity_count THEN -1
    ELSE IF gs.entities[i].active /\ gs.entities[i].tag = tag THEN i
    ELSE FindByTag(gs, tag, i + 1)

\* Index of the first active entity with the tag, -1 for NULL.
find_web_entity_by_tag(gs, tag) == FindByTag(gs, tag, 0)

(***************************************************************************)
(* game_engine_1.8.c: per-entity systems                                   *)
(***************************************************************************)
WrapAxis(v, limit) ==
    LET lo == IF v < -WRAP_MARGIN THEN limit + WRAP_MARGIN ELSE v
    IN IF lo > limit + WRAP_MARGIN THEN -WRAP_MARGIN ELSE lo

update_web_entity_physics(e, delta_time) ==
    IF ~e.active THEN e
    ELSE LET p == web_vec2_add(e.position,
                               web_vec2_multiply_scalar(e.velocity, delta_time, 1000))
             w == web_vec2_create(WrapAxis(p.x, CANVAS_WIDTH), WrapAxis(p.y, CANVAS_HEIGHT))
         IN [e EXCEPT !.position = w,
                      !.velocity = web_vec2_multiply_scalar(e.velocity, FRICTION_PCT, 100)]

update_web_entity_ai(e, current_time) ==
    IF ~e.active \/ e.tag = "Player" THEN e
    ELSE LET time_factor == (current_time * 8) \div 10
             pattern == SinPm(time_factor + e.texture_id * 2000)
             ai_velocity == web_vec2_create(
                 MulDiv(SinPm(time_factor) * pattern, 40, 1000),
                 MulDiv(CosPm((time_factor * 13) \div 10) * pattern, 40, 1000))
         IN [e EXCEPT !.velocity =
                web_vec2_add(e.velocity, web_vec2_multiply_scalar(ai_velocity, 1, 10))]

(***************************************************************************)
(* game_engine_1.8.c: particle system                                      *)
(***************************************************************************)
\* The burst loop writing from slot 0 instead of from particle_count.
RECURSIVE ExplosionLoop_front(_, _, _, _, _)
ExplosionLoop_front(gs, position, count, i, rnd) ==
    IF ~(i < count /\ gs.particle_count < MAX_PARTICLES) THEN gs
    ELSE LET p == [position |-> position,
                   velocity |-> web_vec2_create(rnd.speed, 0),
                   life |-> rnd.life, active |-> TRUE]
         IN ExplosionLoop_front([gs EXCEPT !.particles[i] = p,
                                           !.particle_count = gs.particle_count + 1],
                                position, count, i + 1, rnd)

RECURSIVE ExplosionLoop(_, _, _, _, _)
ExplosionLoop(gs, position, count, i, rnd) ==
    IF ~(i < count /\ gs.particle_count < MAX_PARTICLES) THEN gs
    ELSE LET p == [position |-> position,
                   velocity |-> web_vec2_create(rnd.speed, 0),
                   life |-> rnd.life, active |-> TRUE]
         IN ExplosionLoop([gs EXCEPT !.particles[gs.particle_count] = p,
                                     !.particle_count = gs.particle_count + 1],
                          position, count, i + 1, rnd)

\* rnd: the values drawn from rand() for the particles of this burst.
create_web_particle_explosion(gs, position, count, rnd) ==
    ExplosionLoop(gs, position, IF count > BurstCap THEN BurstCap ELSE count, 0, rnd)

UpdateParticle(p, delta_time) ==
    IF ~p.active THEN p
    ELSE LET v == [p.velocity EXCEPT !.y = p.velocity.y + 120 * delta_time]
             q == [p EXCEPT !.velocity = v,
                            !.position = web_vec2_add(p.position,
                                            web_vec2_multiply_scalar(v, delta_time, 1000)),
                            !.life = p.life - delta_time]
         IN IF q.life <= 0 THEN [q EXCEPT !.active = FALSE] ELSE q

RECURSIVE CompactParticles(_, _, _)
CompactParticles(gs, read_index, write_index) ==
    IF read_index >= gs.particle_count
    THEN [gs EXCEPT !.particle_count = write_index]
    ELSE IF gs.particles[read_index].active
    THEN CompactParticles(
             [gs EXCEPT !.particles[write_index] = gs.particles[read_index]],
             read_index + 1, write_index + 1)
    ELSE CompactParticles(gs, read_index + 1, write_index)

\* m: the struct g, the statics st, the systems run so far tr, the pairs
\* resolved so far.
update_web_particle_system(m, delta_time) ==
    LET g1 == [m.g EXCEPT !.particles =
                  [i \in 0 .. MAX_PARTICLES - 1 |->
                      IF i < m.g.particle_count
                      THEN UpdateParticle(m.g.particles[i], delta_time)
                      ELSE m.g.particles[i]]]
        t == m.st.compact_timer + 1
    IN IF t >= CompactPeriod
       THEN [m EXCEPT !.g = CompactParticles(g1, 0, 0),
                      !.st.compact_timer = 0,
                      !.tr = m.tr \o <<"particles", "compact_particles">>]
       ELSE [m EXCEPT !.g = g1,
                      !.st.compact_timer = t,
                      !.tr = Append(m.tr, "particles")]

(***************************************************************************)
(* game_engine_1.8.c: collision system                                     *)
(***************************************************************************)
\* The response to one tested pair (i, j), both active.
CollidePair(m, i, j, rnd) ==
    LET a == m.g.entities[i]
        b == m.g.entities[j]
        diff == web_vec2_subtract(a.position, b.position)
        near == Abs(diff.x) < COLLISION_RADIUS /\ Abs(diff.y) < COLLISION_RADIUS
        dist_sq == diff.x * diff.x + diff.y * diff.y
    IN IF ~(near /\ dist_sq < COLLISION_RADIUS * COLLISION_RADIUS) THEN m
       ELSE LET distance == ISqrt(dist_sq)
            IN IF ~(distance > MIN_DISTANCE) THEN m
               ELSE LET direction == web_vec2_multiply_scalar(diff, 1000, distance)
                        overlap == COLLISION_RADIUS - distance
                        separation == web_vec2_multiply_scalar(direction, overlap, 2000)
                        bounce_impulse == web_vec2_multiply_scalar(direction, BOUNCE_FORCE, 1)
                        a1 == [a EXCEPT !.position = web_vec2_add(a.position, separation),
                                        !.velocity = web_vec2_add(a.velocity, bounce_impulse)]
                        b1 == [b EXCEPT !.position = web_vec2_subtract(b.position, separation),
                                        !.velocity = web_vec2_subtract(b.velocity, bounce_impulse)]
                        g1 == [m.g EXCEPT !.entities[i] = a1, !.entities[j] = b1]
                        g2 == IF m.g.performance.quality_level >= 2
                              THEN create_web_particle_explosion(g1,
                                       web_vec2_multiply_scalar(
                                           web_vec2_add(a1.position, b1.position), 1, 2),
                                       COLLISION_BURST, rnd)
                              ELSE g1
                        g3 == [g2 EXCEPT !.score = IF a.tag = "Player" \/ b.tag = "Player"
                                                   THEN @ + COLLISION_SCORE ELSE @]
                    IN [m EXCEPT !.g = g3, !.pairs = Append(m.pairs, <<i, j>>)]

\* The pair loop with the inner index restarting at 0 for every i.
RECURSIVE CollisionLoop_all(_, _, _, _)
CollisionLoop_all(m, i, j, rnd) ==
    IF i >= m.g.entity_count THEN m
    ELSE IF ~m.g.entities[i].active THEN CollisionLoop_all(m, i + 1, 0, rnd)
    ELSE IF j >= m.g.entity_count THEN CollisionLoop_all(m, i + 1, 0, rnd)
    ELSE IF j = i \/ ~m.g.entities[j].active THEN CollisionLoop_all(m, i, j + 1, rnd)
    ELSE CollisionLoop_all(CollidePair(m, i, j, rnd), i, j + 1, rnd)

RECURSIVE CollisionLoop(_, _, _, _)
CollisionLoop(m, i, j, rnd) ==
    IF i >= m.g.entity_count THEN m
    ELSE IF ~m.g.entities[i].active THEN CollisionLoop(m, i + 1, i + 2, rnd)
    ELSE IF j >= m.g.entity_count THEN CollisionLoop(m, i + 1, i + 2, rnd)
    ELSE IF ~m.g.entities[j].active THEN CollisionLoop(m, i, j + 1, rnd)
    ELSE CollisionLoop(CollidePair(m, i, j, rnd), i, j + 1, rnd)

update_web_collision_system(m, rnd) ==
    CollisionLoop([m EXCEPT !.tr = Append(m.tr, "collision")], 0, 1, rnd)

(***************************************************************************)
(* game_engine_1.8.c: camera, input, cleanup                               *)
(***************************************************************************)
init_web_camera(gs) == [gs EXCEPT !.camera.target = Center]

update_web_camera(gs, delta_time) ==
    LET player == find_web_entity_by_tag(gs, "Player")
    IN IF player >= 0
       THEN [gs EXCEPT !.camera.target = gs.entities[player].position]
       ELSE gs

process_web_input(gs, delta_time) ==
    LET player == find_web_entity_by_tag(gs, "Player")
        keys == gs.input.keys
        my == (IF 83 \in keys \/ 40 \in keys THEN 1 ELSE 0)
              - (IF 87 \in keys \/ 38 \in keys THEN 1 ELSE 0)
        mx == (IF 68 \in keys \/ 39 \in keys THEN 1 ELSE 0)
              - (IF 65 \in keys \/ 37 \in keys THEN 1 ELSE 0)
        move_mag == ISqrt((mx * mx + my * my) * 1000000)
    IN IF player < 0 THEN gs
       ELSE IF move_mag > 100
       THEN LET movement == web_vec2_multiply_scalar(
                                web_vec2_create(mx * 1000, my * 1000),
                                MOVE_SPEED * 1000, move_mag)
            IN [gs EXCEPT !.entities[player].velocity =
                   web_vec2_add(gs.entities[player].velocity,
                                web_vec2_multiply_scalar(movement, delta_time, 1000))]
       ELSE gs

\* The compaction loop that advances the write index without copying.
RECURSIVE CleanupLoop_nocopy(_, _, _)
CleanupLoop_nocopy(gs, read_index, write_index) ==
    IF read_index >= gs.entity_count
    THEN [gs EXCEPT !.entity_count = write_index]
    ELSE IF gs.entities[read_index].active /\ gs.entities[read_index].health > 0
    THEN CleanupLoop_nocopy(gs, read_index + 1, write_index + 1)
    ELSE CleanupLoop_nocopy(gs, read_index + 1, write_index)

RECURSIVE CleanupLoop(_, _, _)
CleanupLoop(gs, read_index, write_index) ==
    IF read_index >= gs.entity_count
    THEN [gs EXCEPT !.entity_count = write_index]
    ELSE IF gs.entities[read_index].active /\ gs.entities[read_index].health > 0
    THEN CleanupLoop([gs EXCEPT !.entities[write_index] = gs.entities[read_index]],
                     read_index + 1, write_index + 1)
    ELSE CleanupLoop(gs, read_index + 1, write_index)

\* The compaction pass reading from slot 1 on.
cleanup_web_entities_skip(gs) == CleanupLoop(gs, 1, 0)

cleanup_web_entities(gs) == CleanupLoop(gs, 0, 0)

(***************************************************************************)
(* game_engine_1.8.c: performance metrics and the quality governor         *)
(***************************************************************************)
RECURSIVE SumBuffer(_, _)
SumBuffer(buf, i) == IF i >= BufLen THEN 0 ELSE buf[i] + SumBuffer(buf, i + 1)

\* The governor deciding without looking at adaptive_quality.
AdjustQuality_always(perf, timer) ==
    IF timer <= 0 /\ perf.average_frame_time_ms > (MAX_FRAME_TIME_US * 12) \div 10
       /\ perf.quality_level > 0
    THEN [q |-> perf.quality_level - 1, t |-> DownCooldown - 1]
    ELSE [q |-> perf.quality_level, t |-> IF timer > 0 THEN timer - 1 ELSE timer]

\* The governor stepping down two levels at once.
AdjustQuality_two(perf, timer) ==
    IF perf.adaptive_quality /\ timer <= 0
       /\ perf.average_frame_time_ms > (MAX_FRAME_TIME_US * 12) \div 10
    THEN [q |-> perf.quality_level - 2, t |-> DownCooldown]
    ELSE [q |-> perf.quality_level, t |-> IF timer > 0 THEN timer - 1 ELSE timer]

\* The governor never stepping below Medium.
AdjustQuality_floor(perf, timer) ==
    IF perf.adaptive_quality /\ timer <= 0
       /\ perf.average_frame_time_ms > (MAX_FRAME_TIME_US * 12) \div 10
       /\ perf.quality_level > 1
    THEN [q |-> perf.quality_level - 1, t |-> DownCooldown - 1]
    ELSE [q |-> perf.quality_level, t |-> IF timer > 0 THEN timer - 1 ELSE timer]

\* Lines 203..226; the condition of line 203 is repeated on line 206.
AdjustQuality(perf, timer) ==
    LET changed ==
          IF perf.adaptive_quality /\ timer <= 0
          THEN IF perf.average_frame_time_ms > (MAX_FRAME_TIME_US * 12) \div 10
               THEN IF perf.quality_level > 0
                    THEN [q |-> perf.quality_level - 1, t |-> DownCooldown]
                    ELSE [q |-> perf.quality_level, t |-> timer]
               ELSE IF perf.average_frame_time_ms < (MAX_FRAME_TIME_US * 8) \div 10
               THEN IF perf.quality_level < 2
                    THEN [q |-> perf.quality_level + 1, t |-> UpCooldown]
                    ELSE [q |-> perf.quality_level, t |-> timer]
               ELSE [q |-> perf.quality_level, t |-> timer]
          ELSE [q |-> perf.quality_level, t |-> timer]
    IN [q |-> changed.q, t |-> IF changed.t > 0 THEN changed.t - 1 ELSE changed.t]

update_web_performance_metrics(m, current_time) ==
    LET perf == m.g.performance
        frame_time_ms == current_time - perf.last_frame_time
        buf == [m.st.g_frame_time_buffer EXCEPT ![m.st.g_frame_time_index] = frame_time_ms]
        avg == (SumBuffer(buf, 0) * 1000) \div BufLen
        perf1 == [perf EXCEPT !.last_frame_time = current_time,
                              !.average_frame_time_ms = avg]
        adj == AdjustQuality(perf1, m.st.g_quality_adjustment_timer)
    IN [m EXCEPT !.g.performance = [perf1 EXCEPT !.quality_level = adj.q],
                 !.st.g_frame_time_buffer = buf,
                 !.st.g_frame_time_index = (m.st.g_frame_time_index + 1) % BufLen,
                 !.st.g_quality_adjustment_timer = adj.t,
                 !.tr = Append(m.tr, "metrics")]

(***************************************************************************)
(* game_engine_1.8.c: the tick                                             *)
(***************************************************************************)
Machine(gs, s) ==
    [g |-> gs, st |-> s, tr |-> <<>>, pairs |-> <<>>, dt |-> -1, q0 |-> -1, q |-> -1,
     before |-> <<>>, after |-> <<>>, out |-> <<>>]

RECURSIVE EntityLoop(_, _, _, _)
EntityLoop(gs, i, delta_time, current_time) ==
    IF i >= gs.entity_count THEN gs
    ELSE IF gs.entities[i].active
    THEN LET e1 == update_web_entity_physics(gs.entities[i], delta_time)
             e2 == IF gs.performance.quality_level >= 1
                   THEN update_web_entity_ai(e1, current_time)
                   ELSE e1
         IN EntityLoop([gs EXCEPT !.entities[i] = e2], i + 1, delta_time, current_time)
    ELSE EntityLoop(gs, i + 1, delta_time, current_time)

\* update_web_game_logic without the paused test.
update_web_game_logic_nopause(a, m, current_time, rnd) ==
    IF ~a THEN m
    ELSE [m EXCEPT !.g.performance.last_frame_time = current_time, !.dt = 0]

\* Lines 628..631: the collision pass runs at Medium and High.
GatedCollision(m, rnd) ==
    IF m.g.performance.quality_level >= 1 THEN update_web_collision_system(m, rnd) ELSE m

\* Lines 633..635: the particle pass runs at High.
GatedParticles(m, delta_time) ==
    IF m.g.performance.quality_level >= 2 THEN update_web_particle_system(m, delta_time) ELSE m

\* Lines 640..645: the entity compaction runs every CleanupPeriod-th tick.
PeriodicCleanup(m) ==
    LET t == m.st.cleanup_timer + 1
    IN IF t >= CleanupPeriod
       THEN [m EXCEPT !.g = cleanup_web_entities(@),
                      !.before = LiveSeq(m.g),
                      !.after = LiveSeq(cleanup_web_entities(m.g)),
                      !.st.cleanup_timer = 0,
                      !.tr = Append(@, "cleanup")]
       ELSE [m EXCEPT !.st.cleanup_timer = t]

\* Lines 609..645: the systems of one tick, after the metrics were taken.
GameLogicSystems(m1, current_time, rnd) ==
    LET delta_time == web_clamp(m1.g.performance.average_frame_time_ms \div 1000,
                                0, MAX_DELTA_MS)
        m2 == [m1 EXCEPT !.g = process_web_input(@, delta_time),
                         !.dt = delta_time,
                         !.q = m1.g.performance.quality_level,
                         !.tr = Append(@, "input")]
        m3 == [m2 EXCEPT !.g = EntityLoop(@, 0, delta_time, current_time),
                         !.tr = Append(@, "physics")]
        m4 == GatedCollision(m3, rnd)
        m5 == GatedParticles(m4, delta_time)
        m6 == [m5 EXCEPT !.g = update_web_camera(@, delta_time),
                         !.tr = Append(@, "camera")]
    IN PeriodicCleanup(m6)

update_web_game_logic(a, m, current_time, rnd) ==
    IF ~a \/ m.g.paused THEN m
    ELSE GameLogicSystems(
             update_web_performance_metrics(
                 [m EXCEPT !.q0 = m.g.performance.quality_level], current_time),
             current_time, rnd)

(***************************************************************************)
(* game_engine_1.8.c: initialization and reset                             *)
(***************************************************************************)
\* Position of the i-th environment entity of one init or reset.
EnvPosition(rnd, i) == web_vec2_create(rnd.pos[1] + i * EnvSpacing, rnd.pos[2])

CreatePlayer(a, gs) ==
    LET c == create_web_entity(a, gs, Center, 0, "Player")
    IN IF c.ret >= 0 THEN [c.g EXCEPT !.entities[c.ret].tag = "Player"] ELSE c.g

RECURSIVE InitEnvLoop(_, _, _, _)
InitEnvLoop(gs, i, n, rnd) ==
    IF i >= n THEN gs
    ELSE LET c == create_web_entity(TRUE, gs, EnvPosition(rnd, i), rnd.tex, "Environment")
         IN InitEnvLoop(
                IF c.ret >= 0
                THEN [c.g EXCEPT !.entities[c.ret].name = ObjNames[i + 1],
                                 !.entities[c.ret].tag = "Environment",
                                 !.entities[c.ret].velocity =
                                     web_vec2_create(rnd.vel[1], rnd.vel[2])]
                ELSE c.g,
                i + 1, n, rnd)

\* The struct init_web_game_engine leaves when the allocation succeeded.
init_web_game_engine(clock, rnd) ==
    LET g0 == [ZeroWebGameState EXCEPT !.performance.last_frame_time = clock,
                                       !.performance.quality_level = 2,
                                       !.performance.adaptive_quality = TRUE]
        g1 == init_web_camera(g0)
        g2 == CreatePlayer(TRUE, g1)
    IN InitEnvLoop(g2, 0, InitEnvCount, rnd)

RECURSIVE ResetEnvLoop(_, _, _, _)
ResetEnvLoop(gs, i, n, rnd) ==
    IF i >= n THEN gs
    ELSE LET c == create_web_entity(TRUE, gs, EnvPosition(rnd, i), rnd.tex, "Environment")
         IN ResetEnvLoop(
                IF c.ret >= 0
                THEN [c.g EXCEPT !.entities[c.ret].name = ObjNames[i + 1],
                                 !.entities[c.ret].tag = "Environment"]
                ELSE c.g,
                i + 1, n, rnd)

\* The reset also putting the quality level back to High.
reset_web_game_quality(gs, rnd) ==
    LET g0 == [gs EXCEPT !.entity_count = 0, !.particle_count = 0,
                         !.score = 0, !.paused = FALSE,
                         !.performance.quality_level = 2]
    IN ResetEnvLoop(CreatePlayer(TRUE, g0), 0, ResetEnvCount, rnd)

reset_web_game(gs, rnd) ==
    LET g0 == [gs EXCEPT !.entity_count = 0, !.particle_count = 0,
                         !.score = 0, !.paused = FALSE]
    IN ResetEnvLoop(CreatePlayer(TRUE, g0), 0, ResetEnvCount, rnd)

(***************************************************************************)
(* game_engine_1.8.c: the exported calls.  An action's parameter is the    *)
(* set its host-supplied argument is drawn from.                           *)
(***************************************************************************)
Is(v) == variant = v

wasm_init_web_game ==
    /\ Is("1.8")
    /\ \E ok \in BOOLEAN, rnd \in EntityRnd :
        /\ alloc' = ok
        /\ g' = IF ok THEN init_web_game_engine(now, rnd) ELSE ZeroWebGameState
        /\ initialized' = (initialized \/ ok)
        /\ obs' = Obs("init", IF initialized' THEN 1 ELSE 0, 0, NoRun)
    /\ UNCHANGED <<variant, st, now, ticks, hist>>

wasm_update_web_frame(gaps) ==
    /\ Is("1.8")
    /\ ticks < MaxTicks
    /\ \E gap \in gaps, rnd \in ParticleRnd :
        LET current_time == now + gap
            m == IF ~initialized \/ ~alloc THEN Machine(g, st)
                 ELSE update_web_game_logic(alloc, Machine(g, st), current_time, rnd)
        IN /\ now' = current_time
           /\ g' = m.g
           /\ st' = m.st
           /\ obs' = Obs("tick", 0, gap, m)
           /\ hist' = Governed(hist, m, DownCooldown, UpCooldown)
    /\ ticks' = ticks + 1
    /\ UNCHANGED <<variant, alloc, initialized>>

wasm_handle_web_key(codes) ==
    /\ Is("1.8")
    /\ \E key_code \in codes, pressed \in {0, 1} :
        /\ g' = IF ~initialized \/ ~alloc THEN g
                ELSE LET g1 == [g EXCEPT !.input.keys =
                                   IF pressed # 0 THEN @ \cup {key_code}
                                                  ELSE @ \ {key_code}]
                     IN IF pressed # 0 /\ key_code = 32
                        THEN [g1 EXCEPT !.paused = ~g1.paused]
                        ELSE IF pressed # 0 /\ key_code = 192
                        THEN [g1 EXCEPT !.debug_mode = ~g1.debug_mode]
                        ELSE g1
        /\ obs' = Obs("key", 0, key_code, NoRun)
    /\ UNCHANGED <<variant, alloc, initialized, st, now, ticks, hist>>

wasm_set_web_quality(args) ==
    /\ Is("1.8")
    /\ \E quality \in args :
        /\ g' = IF ~alloc THEN g
                ELSE [g EXCEPT !.performance.quality_level = web_clamp(quality, 0, 2),
                               !.performance.adaptive_quality = FALSE]
        /\ obs' = Obs("set_quality", 0, quality, NoRun)
    /\ UNCHANGED <<variant, alloc, initialized, st, now, ticks, hist>>

wasm_enable_web_adaptive_quality ==
    /\ Is("1.8")
    /\ \E enabled \in {0, 1} :
        /\ g' = IF ~alloc THEN g
                ELSE [g EXCEPT !.performance.adaptive_quality = (enabled # 0)]
        /\ obs' = Obs("enable_adaptive", 0, enabled, NoRun)
    /\ UNCHANGED <<variant, alloc, initialized, st, now, ticks, hist>>

wasm_create_web_explosion(counts) ==
    /\ Is("1.8")
    /\ \E count \in counts, rnd \in ParticleRnd :
        /\ g' = IF ~alloc THEN g
                ELSE create_web_particle_explosion(g, Center, count, rnd)
        /\ obs' = Obs("explosion", g'.particle_count - g.particle_count, count, NoRun)
    /\ UNCHANGED <<variant, alloc, initialized, st, now, ticks, hist>>

wasm_add_web_entity(tags) ==
    /\ Is("1.8")
    /\ \E pos \in AddPositions, tag \in tags :
        LET c == create_web_entity(alloc, g, web_vec2_create(pos[1], pos[2]), 1, "Ext")
        IN /\ g' = IF ~alloc THEN g
                   ELSE IF c.ret >= 0 /\ tag # ""
                   THEN [c.g EXCEPT !.entities[c.ret].tag = tag]
                   ELSE c.g
           /\ obs' = Obs("add_entity", IF alloc THEN c.ret ELSE -1, 0, NoRun)
    /\ UNCHANGED <<variant, alloc, initialized, st, now, ticks, hist>>

wasm_reset_web_game ==
    /\ Is("1.8")
    /\ \E rnd \in EntityRnd :
        /\ g' = IF ~alloc THEN g ELSE reset_web_game(g, rnd)
        /\ st' = IF ~alloc THEN st ELSE [st EXCEPT !.g_quality_adjustment_timer = 0]
        /\ obs' = Obs("reset", 0, 0, NoRun)
    /\ UNCHANGED <<variant, alloc, initialized, now, ticks, hist>>

wasm_cleanup_web ==
    /\ Is("1.8")
    /\ alloc' = FALSE
    /\ g' = ZeroWebGameState
    /\ initialized' = FALSE
    /\ obs' = Obs("cleanup", 0, 0, NoRun)
    /\ UNCHANGED <<variant, st, now, ticks, hist>>

\* Gameplay logic marks an entity for removal (Entity Store contract).
\* The records wasm_get_web_entity_data writes into entity_buffer, 8 floats
\* each; slot is the index the record was read from.
RECURSIVE ExportLoop(_, _, _)
ExportLoop(gs, i, buf) ==
    IF i >= gs.entity_count THEN buf
    ELSE IF ~gs.entities[i].active THEN ExportLoop(gs, i + 1, buf)
    ELSE LET e == gs.entities[i]
             buf1 == Append(buf, [slot |-> i, position |-> e.position,
                                  velocity |-> e.velocity,
                                  is_player |-> e.tag = "Player"])
         IN IF Len(buf1) * 8 >= MAX_ENTITIES * 8 - 8 THEN buf1
            ELSE ExportLoop(gs, i + 1, buf1)

wasm_get_web_entity_data ==
    /\ Is("1.8")
    /\ obs' = Obs("export", IF alloc THEN 0 ELSE -1, 0,
                  [NoRun EXCEPT !.out = IF alloc THEN ExportLoop(g, 0, <<>>) ELSE <<>>])
    /\ UNCHANGED <<variant, alloc, initialized, g, st, now, ticks, hist>>

markInactive ==
    /\ alloc
    /\ \E i \in 0 .. MAX_ENTITIES - 1 :
        /\ i < g.entity_count
        /\ g.entities[i].active
        /\ g' = [g EXCEPT !.entities[i].active = FALSE]
        /\ obs' = Obs("mark_inactive", 0, i, NoRun)
    /\ UNCHANGED <<variant, alloc, initialized, st, now, ticks, hist>>

(***************************************************************************)
(* game_engine_18.c                                                        *)
(***************************************************************************)
\* A float that is not a number (0.0f / 0.0f): a value no coordinate and no
\* velocity takes.
NaN == 0 - 2000000000
IsNaN(v) == v = NaN
FAdd(a, b) == IF IsNaN(a) \/ IsNaN(b) THEN NaN ELSE a + b
FSub(a, b) == IF IsNaN(a) \/ IsNaN(b) THEN NaN ELSE a - b
\* a * (n / d)
FScale(a, n, d) == IF IsNaN(a) THEN NaN ELSE MulDiv(a, n, d)
\* a / b, in 1/1000
FDivPm(a, b) == IF IsNaN(a) \/ IsNaN(b) \/ (a = 0 /\ b = 0) THEN NaN
                ELSE MulDiv(a, 1000, b)
\* a < b; a comparison with NaN is false.
FLess(a, b) == IF IsNaN(a) \/ IsNaN(b) THEN FALSE ELSE a < b

ZeroEntity_18 ==
    [x |-> 0, y |-> 0, velocity_x |-> 0, velocity_y |-> 0, texture_id |-> 0,
     active |-> FALSE, health |-> 0, name |-> ""]

ZeroGameState_18 ==
    [entities |-> [i \in 0 .. MAX_ENTITIES - 1 |-> ZeroEntity_18],
     entity_count |-> 0,
     camera_x |-> 0,
     camera_y |-> 0,
     score |-> 0,
     paused |-> FALSE,
     last_frame_time |-> 0]

create_entity(a, gs, x, y, texture_id) ==
    IF ~a \/ gs.entity_count >= MAX_ENTITIES
    THEN [g |-> gs, ret |-> -1]
    ELSE LET i == gs.entity_count
             e == [gs.entities[i] EXCEPT !.x = x, !.y = y, !.velocity_x = 0,
                                         !.velocity_y = 0, !.texture_id = texture_id,
                                         !.active = TRUE, !.health = 100]
         IN [g |-> [gs EXCEPT !.entity_count = i + 1, !.entities[i] = e], ret |-> i]

WrapAxis_18(v, limit) ==
    LET lo == IF FLess(v, 0) THEN limit ELSE v
    IN IF FLess(limit, lo) THEN 0 ELSE lo

update_entity(e, delta_time) ==
    [e EXCEPT !.x = WrapAxis_18(FAdd(e.x, FScale(e.velocity_x, delta_time, 1000)),
                                CANVAS_WIDTH),
              !.y = WrapAxis_18(FAdd(e.y, FScale(e.velocity_y, delta_time, 1000)),
                                CANVAS_HEIGHT),
              !.velocity_x = FScale(e.velocity_x, 95, 100),
              !.velocity_y = FScale(e.velocity_y, 95, 100)]

\* sqrtf(dx * dx + dy * dy) < 32.0f, and the distance when it is.
Distance_18(dx, dy) ==
    IF IsNaN(dx) \/ IsNaN(dy) THEN [hit |-> FALSE, d |-> NaN]
    ELSE IF Abs(dx) >= COLLISION_RADIUS_18 \/ Abs(dy) >= COLLISION_RADIUS_18
    THEN [hit |-> FALSE, d |-> 0]
    ELSE LET d == ISqrt(dx * dx + dy * dy)
         IN [hit |-> d < COLLISION_RADIUS_18, d |-> d]

CollidePair_18(m, i, j) ==
    LET a == m.g.entities[i]
        b == m.g.entities[j]
        dx == FSub(a.x, b.x)
        dy == FSub(a.y, b.y)
        dist == Distance_18(dx, dy)
    IN IF ~dist.hit THEN m
       ELSE LET ix == FScale(FDivPm(dx, dist.d), BOUNCE_FORCE_18, 1)
                iy == FScale(FDivPm(dy, dist.d), BOUNCE_FORCE_18, 1)
                a1 == [a EXCEPT !.velocity_x = FAdd(a.velocity_x, ix),
                                !.velocity_y = FAdd(a.velocity_y, iy)]
                b1 == [b EXCEPT !.velocity_x = FSub(b.velocity_x, ix),
                                !.velocity_y = FSub(b.velocity_y, iy)]
            IN [m EXCEPT !.g.entities[i] = a1,
                         !.g.entities[j] = b1,
                         !.g.score = IF a.name = "Player" THEN @ + COLLISION_SCORE ELSE @,
                         !.pairs = Append(m.pairs, <<i, j>>)]

RECURSIVE CollisionLoop_18(_, _, _)
CollisionLoop_18(m, i, j) ==
    IF i >= m.g.entity_count THEN m
    ELSE IF ~m.g.entities[i].active THEN CollisionLoop_18(m, i + 1, i + 2)
    ELSE IF j >= m.g.entity_count THEN CollisionLoop_18(m, i + 1, i + 2)
    ELSE IF ~m.g.entities[j].active THEN CollisionLoop_18(m, i, j + 1)
    ELSE CollisionLoop_18(CollidePair_18(m, i, j), i, j + 1)

collision_detection(m) ==
    CollisionLoop_18([m EXCEPT !.tr = Append(m.tr, "collision")], 0, 1)

RECURSIVE CleanupLoop_18(_, _, _)
CleanupLoop_18(gs, read_index, write_index) ==
    IF read_index >= gs.entity_count
    THEN [gs EXCEPT !.entity_count = write_index]
    ELSE IF gs.entities[read_index].active
    THEN CleanupLoop_18([gs EXCEPT !.entities[write_index] = gs.entities[read_index]],
                        read_index + 1, write_index + 1)
    ELSE CleanupLoop_18(gs, read_index + 1, write_index)

cleanup_inactive_entities(gs) == CleanupLoop_18(gs, 0, 0)

\* The simple AI of update_game_logic, entities 1 .. entity_count - 1.
AiEntity_18(e, i, current_time) ==
    IF e.active /\ e.name # "Player"
    THEN [e EXCEPT !.velocity_x = MulDiv(SinPm(current_time + 1000 * i), 50, 1),
                   !.velocity_y = MulDiv(CosPm(current_time + 1000 * i), 50, 1)]
    ELSE e

update_game_logic(m, current_time) ==
    IF m.g.paused THEN m
    ELSE LET delta_time == current_time - m.g.last_frame_time
             g1 == [m.g EXCEPT !.last_frame_time = current_time]
             g2 == [g1 EXCEPT !.entities =
                       [i \in 0 .. MAX_ENTITIES - 1 |->
                           IF i < g1.entity_count /\ g1.entities[i].active
                           THEN update_entity(g1.entities[i], delta_time)
                           ELSE g1.entities[i]]]
             m3 == collision_detection([m EXCEPT !.g = g2, !.dt = delta_time,
                                                 !.tr = Append(m.tr, "physics")])
             g4 == cleanup_inactive_entities(m3.g)
             g5 == [g4 EXCEPT !.entities =
                       [i \in 0 .. MAX_ENTITIES - 1 |->
                           IF 1 <= i /\ i < g4.entity_count
                           THEN AiEntity_18(g4.entities[i], i, current_time)
                           ELSE g4.entities[i]]]
         IN [m3 EXCEPT !.g = g5, !.before = LiveSeq(m3.g), !.after = LiveSeq(g4),
                       !.tr = m3.tr \o <<"cleanup", "ai">>]

render_frame(m) ==
    IF m.g.entity_count > 0
    THEN [m EXCEPT !.g.camera_x = m.g.entities[0].x,
                   !.g.camera_y = m.g.entities[0].y,
                   !.tr = Append(m.tr, "camera")]
    ELSE [m EXCEPT !.tr = Append(m.tr, "camera")]

RECURSIVE InitEnvLoop_18(_, _, _, _)
InitEnvLoop_18(gs, i, n, rnd) ==
    IF i >= n THEN gs
    ELSE LET pos == EnvPosition(rnd, i)
             c == create_entity(TRUE, gs, pos.x, pos.y, rnd.tex)
         IN InitEnvLoop_18(
                IF c.ret >= 0 THEN [c.g EXCEPT !.entities[c.ret].name = ObjNames[i + 1]]
                ELSE c.g,
                i + 1, n, rnd)

\* The struct init_game_engine leaves when the allocation succeeded.
init_game_engine(clock, rnd) ==
    LET g0 == [ZeroGameState_18 EXCEPT !.camera_x = CANVAS_WIDTH \div 2,
                                       !.camera_y = CANVAS_HEIGHT \div 2,
                                       !.last_frame_time = clock]
        c == create_entity(TRUE, g0, CANVAS_WIDTH \div 2, CANVAS_HEIGHT \div 2, 0)
        g1 == IF c.ret >= 0
              THEN [c.g EXCEPT !.entities[c.ret].name = "Player",
                               !.entities[c.ret].health = 100]
              ELSE c.g
    IN InitEnvLoop_18(g1, 0, InitEnvCount, rnd)

wasm_init_game ==
    /\ Is("18")
    /\ \E ok \in BOOLEAN, rnd \in EntityRnd :
        /\ alloc' = ok
        /\ g' = IF ok THEN init_game_engine(now, rnd) ELSE ZeroGameState_18
        /\ initialized' = (initialized \/ ok)
        /\ obs' = Obs("init", IF initialized' THEN 1 ELSE 0, 0, NoRun)
    /\ UNCHANGED <<variant, st, now, ticks, hist>>

wasm_update_frame(gaps) ==
    /\ Is("18")
    /\ ticks < MaxTicks
    /\ \E gap \in gaps :
        LET current_time == now + gap
            m == IF ~initialized \/ ~alloc THEN Machine(g, st)
                 ELSE render_frame(update_game_logic(Machine(g, st), current_time))
        IN /\ now' = current_time
           /\ g' = m.g
           /\ obs' = Obs("tick", 0, gap, m)
    /\ ticks' = ticks + 1
    /\ UNCHANGED <<variant, alloc, initialized, st, hist>>

\* What a call reports when it went through the NULL state pointer.
NULL_DEREF == 0 - 99

\* move_speed is 200 units per second.
handle_input(gs, key_code, pressed) ==
    IF gs.entity_count = 0 \/ ~pressed THEN gs
    ELSE IF key_code \in {87, 38} THEN [gs EXCEPT !.entities[0].velocity_y = -200000]
    ELSE IF key_code \in {83, 40} THEN [gs EXCEPT !.entities[0].velocity_y = 200000]
    ELSE IF key_code \in {65, 37} THEN [gs EXCEPT !.entities[0].velocity_x = -200000]
    ELSE IF key_code \in {68, 39} THEN [gs EXCEPT !.entities[0].velocity_x = 200000]
    ELSE IF key_code = 32 THEN [gs EXCEPT !.paused = ~gs.paused]
    ELSE gs

\* wasm_handle_key tests g_initialized only; with the state pointer NULL
\* handle_input reads and writes through it, outside the struct kept here:
\* the call then reports NULL_DEREF instead of 0.
wasm_handle_key(codes) ==
    /\ Is("18")
    /\ \E key_code \in codes, pressed \in {0, 1} :
        /\ g' = IF ~initialized \/ ~alloc THEN g
                ELSE handle_input(g, key_code, pressed = 1)
        /\ obs' = Obs("key", IF initialized /\ ~alloc THEN NULL_DEREF ELSE 0,
                      key_code, NoRun)
    /\ UNCHANGED <<variant, alloc, initialized, st, now, ticks, hist>>

wasm_pause_game ==
    /\ Is("18")
    /\ \E paused \in {0, 1} :
        /\ g' = IF alloc THEN [g EXCEPT !.paused = (paused = 1)] ELSE g
        /\ obs' = Obs("pause", 0, paused, NoRun)
    /\ UNCHANGED <<variant, alloc, initialized, st, now, ticks, hist>>

\* The records wasm_get_entity_positions writes into positions, 3 floats
\* each.
RECURSIVE ExportLoop_18(_, _, _)
ExportLoop_18(gs, i, buf) ==
    IF i >= gs.entity_count THEN buf
    ELSE ExportLoop_18(gs, i + 1,
             Append(buf, [slot |-> i, x |-> gs.entities[i].x, y |-> gs.entities[i].y]))

wasm_get_entity_positions ==
    /\ Is("18")
    /\ obs' = Obs("export", IF alloc THEN 0 ELSE -1, 0,
                  [NoRun EXCEPT !.out = IF alloc THEN ExportLoop_18(g, 0, <<>>) ELSE <<>>])
    /\ UNCHANGED <<variant, alloc, initialized, g, st, now, ticks, hist>>

wasm_cleanup ==
    /\ Is("18")
    /\ alloc' = FALSE
    /\ g' = ZeroGameState_18
    /\ initialized' = FALSE
    /\ obs' = Obs("cleanup", 0, 0, NoRun)
    /\ UNCHANGED <<variant, st, now, ticks, hist>>

(***************************************************************************)
(* game_engine_1.12.c                                                      *)
(* Sub-step time is in 1/10 ms, acceleration in 1/1000 unit/s^2.           *)
(***************************************************************************)
vec3_create(x, y, z) == [x |-> x, y |-> y, z |-> z]
vec3_add(a, b) == [x |-> a.x + b.x, y |-> a.y + b.y, z |-> a.z + b.z]
\* v * (n / d)
vec3_multiply_scalar(v, n, d) ==
    [x |-> MulDiv(v.x, n, d), y |-> MulDiv(v.y, n, d), z |-> MulDiv(v.z, n, d)]
\* The unit vector of v, in 1/1000; the zero vector stays zero (the 1e-6
\* under the root keeps the division defined).
vec3_normalize_fast(v) ==
    LET mag == ISqrt(v.x * v.x + v.y * v.y + v.z * v.z)
    IN IF mag = 0 THEN vec3_create(0, 0, 0) ELSE vec3_multiply_scalar(v, 1000, mag)

ZeroVec3 == vec3_create(0, 0, 0)
Gravity_v112 == vec3_create(0, -490000, 0)
Gravity_adv == vec3_create(0, -980000, 0)

ZeroEntity_v112 ==
    [position |-> ZeroVec3, velocity |-> ZeroVec3, acceleration |-> ZeroVec3,
     is_kinematic |-> FALSE, has_gravity |-> FALSE, enabled |-> FALSE,
     active |-> FALSE, health |-> 0, name |-> "", tag |-> ""]

ZeroParticle_v112 ==
    [position |-> ZeroVec3, velocity |-> ZeroVec3, life |-> 0, active |-> FALSE]

ZeroWebGameState_v112 ==
    [entities |-> [i \in 0 .. MAX_ENTITIES - 1 |-> ZeroEntity_v112],
     entity_count |-> 0,
     particles |-> [i \in 0 .. MAX_PARTICLES - 1 |-> ZeroParticle_v112],
     particle_count |-> 0,
     performance |-> [last_frame_time |-> 0, average_frame_time_ms |-> 0,
                      quality_level |-> 0],
     input |-> [keys |-> {}],
     camera_target |-> ZeroVec3,
     gravity |-> ZeroVec3,
     physics_enabled |-> FALSE,
     score |-> 0,
     paused |-> FALSE,
     adaptive_quality |-> FALSE,
     debug_mode |-> FALSE]

ZeroStatics_v112 == [g_quality_adjustment_cooldown |-> 0, compact_counter |-> 0]

create_web_entity_v112(a, gs, position, name) ==
    IF ~a \/ gs.entity_count >= MAX_ENTITIES
    THEN [g |-> gs, ret |-> -1]
    ELSE LET i == gs.entity_count
             e == [position |-> position, velocity |-> ZeroVec3,
                   acceleration |-> ZeroVec3, is_kinematic |-> FALSE,
                   has_gravity |-> TRUE, enabled |-> TRUE, active |-> TRUE,
                   health |-> 100, name |-> name, tag |-> "Default"]
         IN [g |-> [gs EXCEPT !.entity_count = i + 1, !.entities[i] = e], ret |-> i]

\* One sub-step of update_web_physics_system for one entity.
PhysicsStep_v112(gs, e, sub_delta) ==
    IF ~e.active \/ e.is_kinematic \/ ~e.enabled THEN e
    ELSE LET acc == IF e.has_gravity THEN vec3_add(e.acceleration, gs.gravity)
                    ELSE e.acceleration
             dragged == vec3_add(e.velocity,
                            vec3_multiply_scalar(e.velocity, -sub_delta, 500000))
             vel == vec3_add(dragged, vec3_multiply_scalar(acc, sub_delta, 10000))
         IN [e EXCEPT !.velocity = vel,
                      !.position = vec3_add(e.position,
                                       vec3_multiply_scalar(vel, sub_delta, 10000)),
                      !.acceleration = ZeroVec3]

RECURSIVE PhysicsSubsteps_v112(_, _, _)
PhysicsSubsteps_v112(gs, step, sub_delta) ==
    IF step >= PHYSICS_SUBSTEPS THEN gs
    ELSE PhysicsSubsteps_v112(
             [gs EXCEPT !.entities =
                 [i \in 0 .. MAX_ENTITIES - 1 |->
                     IF i < gs.entity_count
                     THEN PhysicsStep_v112(gs, gs.entities[i], sub_delta)
                     ELSE gs.entities[i]]],
             step + 1, sub_delta)

update_web_physics_system(m, delta_time) ==
    IF ~m.g.physics_enabled THEN m
    ELSE [m EXCEPT !.g = PhysicsSubsteps_v112(m.g, 0,
                             (delta_time * 10) \div PHYSICS_SUBSTEPS),
                   !.tr = Append(m.tr, "physics")]

UpdateParticle_v112(gs, p, delta_time) ==
    IF ~p.active THEN p
    ELSE LET v == vec3_add(p.velocity, vec3_multiply_scalar(gs.gravity, delta_time, 1000))
             q == [p EXCEPT !.velocity = v,
                            !.position = vec3_add(p.position,
                                            vec3_multiply_scalar(v, delta_time, 1000)),
                            !.life = p.life - delta_time]
         IN IF q.life <= 0 THEN [q EXCEPT !.active = FALSE] ELSE q

update_web_particle_system_v112(m, delta_time) ==
    LET g1 == [m.g EXCEPT !.particles =
                  [i \in 0 .. MAX_PARTICLES - 1 |->
                      IF i < m.g.particle_count
                      THEN UpdateParticle_v112(m.g, m.g.particles[i], delta_time)
                      ELSE m.g.particles[i]]]
        t == m.st.compact_counter + 1
    IN IF t >= CompactPeriod
       THEN [m EXCEPT !.g = CompactParticles(g1, 0, 0),
                      !.st.compact_counter = 0,
                      !.tr = m.tr \o <<"particles", "compact_particles">>]
       ELSE [m EXCEPT !.g = g1,
                      !.st.compact_counter = t,
                      !.tr = Append(m.tr, "particles")]

\* The grid cell of a position, gx * GRID_SIZE + gy.
GridAxis(v) == web_clamp(MulDiv(v, 1, CELL_SIZE), 0, GRID_SIZE - 1)
GridCell(e) == GridAxis(e.position.x) * GRID_SIZE + GridAxis(e.position.y)

\* The populate loop without the test of the bucket count.
RECURSIVE GridMembers_nocap(_, _, _, _)
GridMembers_nocap(gs, c, i, acc) ==
    IF i >= gs.entity_count THEN acc
    ELSE IF gs.entities[i].active /\ GridCell(gs.entities[i]) = c
    THEN GridMembers_nocap(gs, c, i + 1, Append(acc, i))
    ELSE GridMembers_nocap(gs, c, i + 1, acc)

\* The entity indices the populate loop stored in cell c, in order.
RECURSIVE GridMembers(_, _, _, _)
GridMembers(gs, c, i, acc) ==
    IF i >= gs.entity_count THEN acc
    ELSE IF gs.entities[i].active /\ GridCell(gs.entities[i]) = c
            /\ Len(acc) < GridCellCap
    THEN GridMembers(gs, c, i + 1, Append(acc, i))
    ELSE GridMembers(gs, c, i + 1, acc)

CollidePair_v112(m, idx_a, idx_b) ==
    LET a == m.g.entities[idx_a]
        b == m.g.entities[idx_b]
        diff == vec3_add(a.position, vec3_multiply_scalar(b.position, -1, 1))
        near == Abs(diff.x) < COLLISION_RADIUS_18 /\ Abs(diff.y) < COLLISION_RADIUS_18
        hit == near /\ diff.x * diff.x + diff.y * diff.y
                        < COLLISION_RADIUS_18 * COLLISION_RADIUS_18
    IN IF ~hit THEN m
       ELSE LET impulse == vec3_multiply_scalar(vec3_normalize_fast(diff),
                                                BOUNCE_v112, 1)
            IN [m EXCEPT !.g.entities[idx_a].velocity = vec3_add(a.velocity, impulse),
                         !.g.entities[idx_b].velocity =
                             vec3_add(b.velocity, vec3_multiply_scalar(impulse, -1, 1)),
                         !.g.score = IF a.tag = "Player" \/ b.tag = "Player"
                                     THEN @ + COLLISION_SCORE_v112 ELSE @,
                         !.pairs = Append(m.pairs, <<idx_a, idx_b>>)]

RECURSIVE CellPairs_v112(_, _, _, _)
CellPairs_v112(m, cell, i, j) ==
    IF i > Len(cell) THEN m
    ELSE IF j > Len(cell) THEN CellPairs_v112(m, cell, i + 1, i + 2)
    ELSE CellPairs_v112(CollidePair_v112(m, cell[i], cell[j]), cell, i, j + 1)

\* The cells that hold an entity; the loop over the cells does nothing in
\* the others.
OccupiedCells(gs) ==
    {GridCell(gs.entities[i]) : i \in {k \in 0 .. gs.entity_count - 1 :
                                          gs.entities[k].active}}

\* The cells from c on, in the order gx, gy of the loop.
RECURSIVE GridLoop_v112(_, _, _)
GridLoop_v112(m, gs0, c) ==
    LET rest == {d \in OccupiedCells(gs0) : d >= c}
    IN IF rest = {} THEN m
       ELSE LET next == CHOOSE d \in rest : \A o \in rest : d <= o
            IN GridLoop_v112(CellPairs_v112(m, GridMembers(gs0, next, 0, <<>>), 1, 2),
                             gs0, next + 1)

update_web_collision_system_v112(m) ==
    GridLoop_v112([m EXCEPT !.tr = Append(m.tr, "collision")], m.g, 0)

RECURSIVE FindPlayer_v112(_, _)
FindPlayer_v112(gs, i) ==
    IF i >= gs.entity_count THEN -1
    ELSE IF gs.entities[i].tag = "Player" THEN i
    ELSE FindPlayer_v112(gs, i + 1)

process_web_input_v112(gs, delta_time) ==
    LET player == FindPlayer_v112(gs, 0)
        keys == gs.input.keys
        my == (IF 83 \in keys THEN 1 ELSE 0) - (IF 87 \in keys THEN 1 ELSE 0)
        mx == (IF 68 \in keys THEN 1 ELSE 0) - (IF 65 \in keys THEN 1 ELSE 0)
        move_mag == ISqrt((mx * mx + my * my) * 1000000)
    IN IF player < 0 THEN gs
       ELSE IF move_mag > 100
       THEN LET movement == vec3_multiply_scalar(vec3_create(mx * 1000, my * 1000, 0),
                                                 MOVE_SPEED_v112 * 1000, move_mag)
            IN [gs EXCEPT !.entities[player].acceleration =
                   vec3_add(gs.entities[player].acceleration, movement)]
       ELSE gs

\* The camera of update_web_game_logic, following entities[0].
FollowCamera_v112(gs, delta_time) ==
    LET player == gs.entities[0]
    IN IF player.active
       THEN [gs EXCEPT !.camera_target.x =
                           @ + MulDiv(player.position.x - @, 3 * delta_time, 1000),
                       !.camera_target.y =
                           @ + MulDiv(player.position.y - @, 3 * delta_time, 1000)]
       ELSE gs

\* frame_time_ms in microseconds.
update_adaptive_quality(m, frame_time_ms) ==
    LET level == m.g.performance.quality_level
    IN IF ~m.g.adaptive_quality THEN m
       ELSE IF m.st.g_quality_adjustment_cooldown > 0
       THEN [m EXCEPT !.st.g_quality_adjustment_cooldown = @ - 1,
                      !.tr = Append(m.tr, "governor")]
       ELSE IF frame_time_ms > (MAX_FRAME_TIME_US * 12) \div 10
       THEN IF level > 0
            THEN [m EXCEPT !.g.performance.quality_level = level - 1,
                           !.st.g_quality_adjustment_cooldown = DownCooldown_v112,
                           !.tr = Append(m.tr, "governor")]
            ELSE [m EXCEPT !.tr = Append(m.tr, "governor")]
       ELSE IF frame_time_ms < (MAX_FRAME_TIME_US * 7) \div 10
       THEN IF level < 2
            THEN [m EXCEPT !.g.performance.quality_level = level + 1,
                           !.st.g_quality_adjustment_cooldown = UpCooldown_v112,
                           !.tr = Append(m.tr, "governor")]
            ELSE [m EXCEPT !.tr = Append(m.tr, "governor")]
       ELSE [m EXCEPT !.tr = Append(m.tr, "governor")]

\* cost: what emscripten_get_now() advanced by between frame_start and
\* frame_end, in microseconds.
update_web_game_logic_v112(m, current_time, cost) ==
    IF m.g.paused THEN m
    ELSE LET perf == m.g.performance
             raw == current_time - perf.last_frame_time
             delta_time == IF raw > MAX_DELTA_MS THEN MAX_DELTA_MS ELSE raw
             m1 == [m EXCEPT !.g.performance.last_frame_time = current_time,
                             !.dt = delta_time,
                             !.q0 = perf.quality_level,
                             !.q = perf.quality_level]
             m2 == IF perf.quality_level >= 1
                   THEN update_web_collision_system_v112(
                            update_web_physics_system(m1, delta_time))
                   ELSE m1
             m3 == IF perf.quality_level >= 2
                   THEN update_web_particle_system_v112(m2, delta_time)
                   ELSE m2
             m4 == [m3 EXCEPT !.g = FollowCamera_v112(
                                        process_web_input_v112(@, delta_time),
                                        delta_time),
                              !.tr = @ \o <<"input", "camera">>]
             m5 == [m4 EXCEPT !.g.performance.average_frame_time_ms =
                                  (@ * 9) \div 10 + cost \div 10]
         IN update_adaptive_quality(m5, cost)

RECURSIVE InitEnvLoop_v112(_, _, _, _)
InitEnvLoop_v112(gs, i, n, rnd) ==
    IF i >= n THEN gs
    ELSE LET c == create_web_entity_v112(TRUE, gs,
                      vec3_create(rnd[1] + i * EnvSpacing, rnd[2], 0), "Environment")
         IN InitEnvLoop_v112(
                IF c.ret >= 0
                THEN [c.g EXCEPT !.entities[c.ret].name = ObjNames[i + 1],
                                 !.entities[c.ret].tag = "Environment"]
                ELSE c.g,
                i + 1, n, rnd)

\* The struct init_web_game_engine leaves when the allocation succeeded.
init_web_game_engine_v112(clock, rnd) ==
    LET g0 == [ZeroWebGameState_v112 EXCEPT
                  !.camera_target = vec3_create(CANVAS_WIDTH_v112 \div 2,
                                                CANVAS_HEIGHT_v112 \div 2, 0),
                  !.gravity = Gravity_v112,
                  !.physics_enabled = TRUE,
                  !.adaptive_quality = TRUE,
                  !.performance.last_frame_time = clock,
                  !.performance.quality_level = 2]
        c == create_web_entity_v112(TRUE, g0,
                 vec3_create(CANVAS_WIDTH_v112 \div 2, CANVAS_HEIGHT_v112 \div 2, 0),
                 "Player")
        g1 == IF c.ret >= 0
              THEN [c.g EXCEPT !.entities[c.ret].has_gravity = FALSE,
                               !.entities[c.ret].tag = "Player"]
              ELSE c.g
    IN InitEnvLoop_v112(g1, 0, InitEnvCount, rnd)

wasm_init_web_game_v112 ==
    /\ Is("1.12")
    /\ \E ok \in BOOLEAN, rnd \in EnvPositions_v112 :
        /\ alloc' = ok
        /\ g' = IF ok THEN init_web_game_engine_v112(now, rnd) ELSE ZeroWebGameState_v112
        /\ initialized' = (initialized \/ ok)
        /\ obs' = Obs("init", IF initialized' THEN 1 ELSE 0, 0, NoRun)
    /\ UNCHANGED <<variant, st, now, ticks, hist>>

wasm_update_web_frame_v112(gaps, costs) ==
    /\ Is("1.12")
    /\ ticks < MaxTicks_v112
    /\ \E gap \in gaps, cost \in costs :
        LET current_time == now + gap
            m == IF ~initialized \/ ~alloc THEN Machine(g, st)
                 ELSE update_web_game_logic_v112(Machine(g, st), current_time, cost)
        IN /\ now' = current_time
           /\ g' = m.g
           /\ st' = m.st
           /\ obs' = Obs("tick", 0, gap, m)
           /\ hist' = IF Len(m.tr) > 0 /\ m.tr[Len(m.tr)] = "governor"
                      THEN Governed(hist, [m EXCEPT !.q = m.g.performance.quality_level],
                                    DownCooldown_v112, UpCooldown_v112)
                      ELSE hist
    /\ ticks' = ticks + 1
    /\ UNCHANGED <<variant, alloc, initialized>>

wasm_handle_web_key_v112(codes) ==
    /\ Is("1.12")
    /\ \E key_code \in codes, pressed \in {0, 1} :
        /\ g' = IF ~initialized \/ ~alloc THEN g
                ELSE LET g1 == [g EXCEPT !.input.keys =
                                    IF pressed # 0 THEN @ \cup {key_code}
                                    ELSE @ \ {key_code}]
                     IN IF pressed # 0 /\ key_code = 32
                        THEN [g1 EXCEPT !.paused = ~g1.paused]
                        ELSE g1
        /\ obs' = Obs("key", pressed, key_code, NoRun)
    /\ UNCHANGED <<variant, alloc, initialized, st, now, ticks, hist>>

(***************************************************************************)
(* game_engine_112.c                                                       *)
(* The file declares update_advanced_entity, update_ai_systems,            *)
(* update_particles, update_lighting, advanced_collision_detection,        *)
(* cleanup_entities, render_advanced_frame and handle_advanced_input and   *)
(* calls them, but holds no body for them.  update_particles,              *)
(* advanced_collision_detection and cleanup_entities follow the component  *)
(* design of spec.md (4.4, 4.3, 4.1), with the constants of                *)
(* game_engine_1.12.c; the others have no effect on the state kept here.   *)
(***************************************************************************)
ZeroEntity_adv ==
    [position |-> ZeroVec3, velocity |-> ZeroVec3, acceleration |-> ZeroVec3,
     mass |-> 0, is_kinematic |-> FALSE, has_gravity |-> FALSE,
     active |-> FALSE, health |-> 0, name |-> "", tag |-> ""]

ZeroAdvancedGameState ==
    [entities |-> [i \in 0 .. MAX_ENTITIES - 1 |-> ZeroEntity_adv],
     entity_count |-> 0,
     particles |-> [i \in 0 .. MAX_PARTICLES - 1 |-> ZeroParticle_v112],
     particle_count |-> 0,
     camera_x |-> 0,
     camera_y |-> 0,
     gravity |-> ZeroVec3,
     physics_enabled |-> FALSE,
     shadow_quality |-> 0,
     score |-> 0,
     paused |-> FALSE,
     last_frame_time |-> 0,
     multiplayer_enabled |-> FALSE]

create_advanced_entity(a, gs, position, name) ==
    IF ~a \/ gs.entity_count >= MAX_ENTITIES
    THEN [g |-> gs, ret |-> -1]
    ELSE LET i == gs.entity_count
             e == [position |-> position, velocity |-> ZeroVec3,
                   acceleration |-> ZeroVec3, mass |-> 1000, is_kinematic |-> FALSE,
                   has_gravity |-> TRUE, active |-> TRUE, health |-> 100,
                   name |-> name, tag |-> "Untagged"]
         IN [g |-> [gs EXCEPT !.entity_count = i + 1, !.entities[i] = e], ret |-> i]

\* The drag acceleration 0.5 * air_density * speed^2 * drag / mass against
\* the velocity, with air_density 1.225 and drag 0.01.
DragAcceleration(e) ==
    LET v == e.velocity
        near == Abs(v.x) < 30000 /\ Abs(v.y) < 30000 /\ Abs(v.z) < 30000
        speed == IF near THEN ISqrt(v.x * v.x + v.y * v.y + v.z * v.z)
                 ELSE 10 * ISqrt((v.x \div 10) * (v.x \div 10) + (v.y \div 10) * (v.y \div 10)
                                  + (v.z \div 10) * (v.z \div 10))
    IN IF speed > 10
       THEN vec3_multiply_scalar(
                vec3_multiply_scalar(vec3_multiply_scalar(v, -(speed \div 10), 100),
                                     49, 8000),
                1000, e.mass)
       ELSE ZeroVec3

\* One sub-step of update_physics for one entity.
PhysicsStep_adv(gs, e, sub_delta) ==
    IF ~e.active \/ e.is_kinematic THEN e
    ELSE LET a1 == IF e.has_gravity THEN vec3_add(e.acceleration, gs.gravity)
                   ELSE e.acceleration
             acc == vec3_add(a1, DragAcceleration(e))
             vel == vec3_add(e.velocity, vec3_multiply_scalar(acc, sub_delta, 10000))
         IN [e EXCEPT !.position = vec3_add(e.position,
                                       vec3_multiply_scalar(vel, sub_delta, 10000)),
                      !.velocity = vec3_add(vel,
                                       vec3_multiply_scalar(vel, -sub_delta, 100000)),
                      !.acceleration = ZeroVec3]

RECURSIVE PhysicsSubsteps_adv(_, _, _)
PhysicsSubsteps_adv(gs, step, sub_delta) ==
    IF step >= PHYSICS_SUBSTEPS_adv THEN gs
    ELSE PhysicsSubsteps_adv(
             [gs EXCEPT !.entities =
                 [i \in 0 .. MAX_ENTITIES - 1 |->
                     IF i < gs.entity_count
                     THEN PhysicsStep_adv(gs, gs.entities[i], sub_delta)
                     ELSE gs.entities[i]]],
             step + 1, sub_delta)

update_physics(m, delta_time) ==
    [m EXCEPT !.g = PhysicsSubsteps_adv(m.g, 0, (delta_time * 10) \div PHYSICS_SUBSTEPS_adv),
              !.tr = Append(m.tr, "physics")]

RECURSIVE ExplosionLoop_adv(_, _, _, _, _)
ExplosionLoop_adv(gs, position, count, i, rnd) ==
    IF ~(i < count /\ gs.particle_count < MAX_PARTICLES) THEN gs
    ELSE LET p == [position |-> position,
                   velocity |-> vec3_create(rnd.speed, 0, 0),
                   life |-> rnd.life, active |-> TRUE]
         IN ExplosionLoop_adv([gs EXCEPT !.particles[gs.particle_count] = p,
                                         !.particle_count = gs.particle_count + 1],
                              position, count, i + 1, rnd)

create_particle_explosion(gs, position, count, rnd) ==
    ExplosionLoop_adv(gs, position, count, 0, rnd)

\* spec.md 4.4, tick and compact.
update_particles(m, delta_time) ==
    LET g1 == [m.g EXCEPT !.particles =
                  [i \in 0 .. MAX_PARTICLES - 1 |->
                      IF i < m.g.particle_count
                      THEN UpdateParticle_v112(m.g, m.g.particles[i], delta_time)
                      ELSE m.g.particles[i]]]
    IN [m EXCEPT !.g = g1, !.tr = Append(m.tr, "particles")]

\* spec.md 4.3, resolution of one pair.
ResolvePair_adv(m, idx_a, idx_b, rnd) ==
    LET a == m.g.entities[idx_a]
        b == m.g.entities[idx_b]
        diff == vec3_add(a.position, vec3_multiply_scalar(b.position, -1, 1))
        near == /\ Abs(diff.x) < COLLISION_RADIUS_18
                /\ Abs(diff.y) < COLLISION_RADIUS_18
                /\ Abs(diff.z) < COLLISION_RADIUS_18
        dist == IF near
                THEN 10 * ISqrt((diff.x \div 10) * (diff.x \div 10)
                                + (diff.y \div 10) * (diff.y \div 10)
                                + (diff.z \div 10) * (diff.z \div 10))
                ELSE COLLISION_RADIUS_18
    IN IF dist >= COLLISION_RADIUS_18 THEN m
       ELSE LET normal == vec3_normalize_fast(
                              vec3_create(diff.x \div 10, diff.y \div 10, diff.z \div 10))
                push == vec3_multiply_scalar(normal, (COLLISION_RADIUS_18 - dist) \div 2,
                                             1000)
                impulse == vec3_multiply_scalar(normal, BOUNCE_v112, 1)
                mid == vec3_multiply_scalar(vec3_add(a.position, b.position), 1, 2)
                m1 == [m EXCEPT
                          !.g.entities[idx_a].position = vec3_add(a.position, push),
                          !.g.entities[idx_b].position =
                              vec3_add(b.position, vec3_multiply_scalar(push, -1, 1)),
                          !.g.entities[idx_a].velocity = vec3_add(a.velocity, impulse),
                          !.g.entities[idx_b].velocity =
                              vec3_add(b.velocity, vec3_multiply_scalar(impulse, -1, 1)),
                          !.g.score = IF a.tag = "Player" \/ b.tag = "Player"
                                      THEN @ + COLLISION_SCORE_v112 ELSE @,
                          !.pairs = Append(m.pairs, <<idx_a, idx_b>>)]
            IN IF m.g.shadow_quality >= 2
               THEN [m1 EXCEPT !.g = create_particle_explosion(@, mid,
                                                               COLLISION_BURST, rnd)]
               ELSE m1

RECURSIVE CellPairs_adv(_, _, _, _, _)
CellPairs_adv(m, cell, i, j, rnd) ==
    IF i > Len(cell) THEN m
    ELSE IF j > Len(cell) THEN CellPairs_adv(m, cell, i + 1, i + 2, rnd)
    ELSE CellPairs_adv(ResolvePair_adv(m, cell[i], cell[j], rnd), cell, i, j + 1, rnd)

RECURSIVE GridLoop_adv(_, _, _, _)
GridLoop_adv(m, gs0, c, rnd) ==
    LET rest == {d \in OccupiedCells(gs0) : d >= c}
    IN IF rest = {} THEN m
       ELSE LET next == CHOOSE d \in rest : \A o \in rest : d <= o
            IN GridLoop_adv(CellPairs_adv(m, GridMembers(gs0, next, 0, <<>>), 1, 2, rnd),
                            gs0, next + 1, rnd)

\* spec.md 4.3.
advanced_collision_detection(m, rnd) ==
    GridLoop_adv([m EXCEPT !.tr = Append(m.tr, "collision")], m.g, 0, rnd)

\* spec.md 4.1, compact().
cleanup_entities(gs) == CleanupLoop_18(gs, 0, 0)

\* Lines 486..492: the camera closes on entities[0].
FollowCamera_adv(gs, delta_time) ==
    IF gs.entity_count > 0
    THEN [gs EXCEPT
             !.camera_x = @ + MulDiv(gs.entities[0].position.x - @, 5 * delta_time, 1000),
             !.camera_y = @ + MulDiv(gs.entities[0].position.y - @, 5 * delta_time, 1000)]
    ELSE gs

\* Lines 494..495: the compaction closing every tick.
CleanupStage_adv(m) ==
    [m EXCEPT !.g = cleanup_entities(@),
              !.before = LiveSeq(m.g),
              !.after = LiveSeq(cleanup_entities(m.g)),
              !.tr = Append(@, "cleanup")]

update_advanced_game_logic(m, current_time, rnd) ==
    IF m.g.paused THEN m
    ELSE LET raw == current_time - m.g.last_frame_time
             delta_time == IF raw > MAX_DELTA_MS THEN MAX_DELTA_MS ELSE raw
             m1 == [m EXCEPT !.g.last_frame_time = current_time,
                             !.dt = delta_time,
                             !.q0 = m.g.shadow_quality,
                             !.q = m.g.shadow_quality]
             m2 == IF m.g.physics_enabled THEN update_physics(m1, delta_time) ELSE m1
             m3 == update_particles(m2, delta_time)
             m4 == advanced_collision_detection(m3, rnd)
             m5 == [m4 EXCEPT !.g = FollowCamera_adv(@, delta_time),
                              !.tr = Append(@, "camera")]
         IN CleanupStage_adv(m5)

RECURSIVE InitEnvLoop_adv(_, _, _, _)
InitEnvLoop_adv(gs, i, n, rnd) ==
    IF i >= n THEN gs
    ELSE LET c == create_advanced_entity(TRUE, gs,
                      vec3_create(rnd[1] + i * EnvSpacing, rnd[2], rnd[3]), "Environment")
         IN InitEnvLoop_adv(
                IF c.ret >= 0
                THEN [c.g EXCEPT !.entities[c.ret].name = ObjNames[i + 1],
                                 !.entities[c.ret].tag = "Environment"]
                ELSE c.g,
                i + 1, n, rnd)

\* The struct init_advanced_engine leaves when the allocation succeeded.
init_advanced_engine(clock, rnd) ==
    LET g0 == [ZeroAdvancedGameState EXCEPT
                  !.camera_x = CANVAS_WIDTH_v112 \div 2,
                  !.camera_y = CANVAS_HEIGHT_v112 \div 2,
                  !.gravity = Gravity_adv,
                  !.physics_enabled = TRUE,
                  !.shadow_quality = 2,
                  !.last_frame_time = clock]
        c == create_advanced_entity(TRUE, g0,
                 vec3_create(CANVAS_WIDTH_v112 \div 2, CANVAS_HEIGHT_v112 \div 2, 0),
                 "Player")
        g1 == IF c.ret >= 0
              THEN [c.g EXCEPT !.entities[c.ret].has_gravity = FALSE,
                               !.entities[c.ret].tag = "Player"]
              ELSE c.g
    IN InitEnvLoop_adv(g1, 0, InitEnvCount, rnd)

wasm_init_advanced_game ==
    /\ Is("112")
    /\ \E ok \in BOOLEAN, rnd \in EnvPositions_adv :
        /\ alloc' = ok
        /\ g' = IF ok THEN init_advanced_engine(now, rnd) ELSE ZeroAdvancedGameState
        /\ initialized' = (initialized \/ ok)
        /\ obs' = Obs("init", IF initialized' THEN 1 ELSE 0, 0, NoRun)
    /\ UNCHANGED <<variant, st, now, ticks, hist>>

wasm_update_advanced_frame(gaps) ==
    /\ Is("112")
    /\ ticks < MaxTicks
    /\ \E gap \in gaps, rnd \in ParticleRnd :
        LET current_time == now + gap
            m == IF ~initialized \/ ~alloc THEN Machine(g, st)
                 ELSE update_advanced_game_logic(Machine(g, st), current_time, rnd)
        IN /\ now' = current_time
           /\ g' = m.g
           /\ obs' = Obs("tick", 0, gap, m)
    /\ ticks' = ticks + 1
    /\ UNCHANGED <<variant, alloc, initialized, st, hist>>

wasm_set_graphics_quality(args) ==
    /\ Is("112")
    /\ \E quality \in args :
        /\ g' = IF alloc /\ quality \in {0, 1, 2}
                THEN [g EXCEPT !.shadow_quality = quality]
                ELSE g
        /\ obs' = Obs("set_quality", 0, quality, NoRun)
    /\ UNCHANGED <<variant, alloc, initialized, st, now, ticks, hist>>

wasm_cleanup_advanced ==
    /\ Is("112")
    /\ alloc' = FALSE
    /\ g' = ZeroAdvancedGameState
    /\ initialized' = FALSE
    /\ obs' = Obs("cleanup", 0, 0, NoRun)
    /\ UNCHANGED <<variant, st, now, ticks, hist>>

(***************************************************************************)
(* Specifications.  Init is the module before wasm_init_*; Ready_* is the  *)
(* state the first successful wasm_init_* call leaves at clock 0.  Spec    *)
(* lets the host make every call; the other specifications let it make     *)
(* the calls of one subsystem.                                             *)
(***************************************************************************)
Init_1_8 ==
    /\ variant = "1.8"
    /\ alloc = FALSE
    /\ initialized = FALSE
    /\ g = ZeroWebGameState
    /\ st = ZeroStatics
    /\ now = 0
    /\ ticks = 0
    /\ obs = Obs("none", 0, 0, NoRun)
    /\ hist = NoHist

Ready_1_8 ==
    /\ variant = "1.8"
    /\ alloc = TRUE
    /\ initialized = TRUE
    /\ \E rnd \in EntityRnd : g = init_web_game_engine(0, rnd)
    /\ st = ZeroStatics
    /\ now = 0
    /\ ticks = 0
    /\ obs = Obs("init", 1, 0, NoRun)
    /\ hist = NoHist

Init_18 ==
    /\ variant = "18"
    /\ alloc = FALSE
    /\ initialized = FALSE
    /\ g = ZeroGameState_18
    /\ st = ZeroStatics
    /\ now = 0
    /\ ticks = 0
    /\ obs = Obs("none", 0, 0, NoRun)
    /\ hist = NoHist

Ready_18 ==
    /\ variant = "18"
    /\ alloc = TRUE
    /\ initialized = TRUE
    /\ \E rnd \in EntityRnd : g = init_game_engine(0, rnd)
    /\ st = ZeroStatics
    /\ now = 0
    /\ ticks = 0
    /\ obs = Obs("init", 1, 0, NoRun)
    /\ hist = NoHist

Init_v112 ==
    /\ variant = "1.12"
    /\ alloc = FALSE
    /\ initialized = FALSE
    /\ g = ZeroWebGameState_v112
    /\ st = ZeroStatics_v112
    /\ now = 0
    /\ ticks = 0
    /\ obs = Obs("none", 0, 0, NoRun)
    /\ hist = NoHist

Ready_v112 ==
    /\ variant = "1.12"
    /\ alloc = TRUE
    /\ initialized = TRUE
    /\ \E rnd \in EnvPositions_v112 : g = init_web_game_engine_v112(0, rnd)
    /\ st = ZeroStatics_v112
    /\ now = 0
    /\ ticks = 0
    /\ obs = Obs("init", 1, 0, NoRun)
    /\ hist = NoHist

Init_adv ==
    /\ variant = "112"
    /\ alloc = FALSE
    /\ initialized = FALSE
    /\ g = ZeroAdvancedGameState
    /\ st = ZeroStatics
    /\ now = 0
    /\ ticks = 0
    /\ obs = Obs("none", 0, 0, NoRun)
    /\ hist = NoHist

Ready_adv ==
    /\ variant = "112"
    /\ alloc = TRUE
    /\ initialized = TRUE
    /\ \E rnd \in EnvPositions_adv : g = init_advanced_engine(0, rnd)
    /\ st = ZeroStatics
    /\ now = 0
    /\ ticks = 0
    /\ obs = Obs("init", 1, 0, NoRun)
    /\ hist = NoHist

Next_1_8 ==
    \/ wasm_init_web_game
    \/ wasm_update_web_frame(Gaps)
    \/ wasm_handle_web_key(KeyCodes)
    \/ wasm_set_web_quality(QualityArgs)
    \/ wasm_enable_web_adaptive_quality
    \/ wasm_create_web_explosion(BurstCounts)
    \/ wasm_add_web_entity(AddTags)
    \/ wasm_reset_web_game
    \/ wasm_cleanup_web
    \/ markInactive

Init == Init_1_8
Next == Next_1_8
Spec == Init /\ [][Next]_vars

\* Entity store: creation up to capacity, removal marks, compaction, reset.
NextStore ==
    \/ wasm_update_web_frame({10})
    \/ wasm_add_web_entity({""})
    \/ wasm_reset_web_game
    \/ wasm_update_frame(Gaps)
    \/ markInactive
SpecStore == (Ready_1_8 \/ Ready_18) /\ [][NextStore]_vars

\* Particle pool and quality gating.
NextGate ==
    \/ wasm_update_web_frame(Gaps)
    \/ wasm_set_web_quality(QualityArgs)
    \/ wasm_create_web_explosion(BurstCounts)
SpecGate == Ready_1_8 /\ [][NextGate]_vars

\* Quality governor.
NextGov ==
    \/ wasm_update_web_frame(Gaps)
    \/ wasm_set_web_quality(QualityArgs)
    \/ wasm_enable_web_adaptive_quality
    \/ wasm_reset_web_game
    \/ wasm_update_web_frame_v112({10}, FrameCosts)
SpecGov == (Ready_1_8 \/ Ready_v112) /\ [][NextGov]_vars

\* Life cycle and pause.
\* The 1.12 engine under frame callbacks and key events.
NextTick_v112 ==
    \/ wasm_update_web_frame_v112(Gaps, FrameCosts)
    \/ wasm_handle_web_key_v112({68})
SpecTick_v112 == Ready_v112 /\ [][NextTick_v112]_vars

\* The 112 engine under frame callbacks and graphics-quality settings.
NextTick_adv ==
    \/ wasm_update_advanced_frame(Gaps)
    \/ wasm_set_graphics_quality(GraphicsArgs)
SpecTick_adv == Ready_adv /\ [][NextTick_adv]_vars

NextLife ==
    \/ wasm_init_web_game
    \/ wasm_cleanup_web
    \/ wasm_update_web_frame(Gaps)
    \/ wasm_handle_web_key({32})
    \/ wasm_init_game
    \/ wasm_cleanup
    \/ wasm_update_frame(Gaps)
    \/ wasm_pause_game
    \/ wasm_init_web_game_v112
    \/ wasm_update_web_frame_v112({10}, FrameCosts)
    \/ wasm_handle_web_key_v112({32})
    \/ wasm_init_advanced_game
    \/ wasm_cleanup_advanced
    \/ wasm_update_advanced_frame({10})
\* The entity stores of 1.8 and 18 with their render exports.
NextExport ==
    \/ wasm_update_web_frame({10})
    \/ wasm_add_web_entity({""})
    \/ wasm_get_web_entity_data
    \/ wasm_update_frame({10})
    \/ wasm_get_entity_positions
    \/ markInactive
SpecExport == (Ready_1_8 \/ Ready_18) /\ [][NextExport]_vars

\* Key events and ticks of 1.8, 18 and 1.12.
NextInput ==
    \/ wasm_handle_web_key(KeyCodes)
    \/ wasm_update_web_frame({10})
    \/ wasm_handle_key(KeyCodes)
    \/ wasm_update_frame({10})
    \/ wasm_handle_web_key_v112({68})
    \/ wasm_update_web_frame_v112({10}, FrameCosts)
SpecInput == (Ready_1_8 \/ Ready_18 \/ Ready_v112) /\ [][NextInput]_vars

\* Ticks and key events of 1.8 and 1.12 over stores that hold entities
\* marked inactive.
NextInactive ==
    \/ wasm_update_web_frame({10})
    \/ wasm_handle_web_key({68})
    \/ wasm_update_web_frame_v112({10}, FrameCosts)
    \/ wasm_handle_web_key_v112({68})
    \/ markInactive
SpecInactive == (Ready_1_8 \/ Ready_v112) /\ [][NextInactive]_vars

\* The engines after an initialization whose rand() draws put the first
\* environment entity on the player's spawn point.
OverlapRnd ==
    [pos : {<<CANVAS_WIDTH \div 2, CANVAS_HEIGHT \div 2>>}, vel : EnvVelocities,
     tex : EnvTextures]

Overlap_1_8 ==
    /\ variant = "1.8"
    /\ alloc = TRUE
    /\ initialized = TRUE
    /\ \E rnd \in OverlapRnd : g = init_web_game_engine(0, rnd)
    /\ st = ZeroStatics
    /\ now = 0
    /\ ticks = 0
    /\ obs = Obs("init", 1, 0, NoRun)
    /\ hist = NoHist

Overlap_18 ==
    /\ variant = "18"
    /\ alloc = TRUE
    /\ initialized = TRUE
    /\ \E rnd \in OverlapRnd : g = init_game_engine(0, rnd)
    /\ st = ZeroStatics
    /\ now = 0
    /\ ticks = 0
    /\ obs = Obs("init", 1, 0, NoRun)
    /\ hist = NoHist

Overlap_v112 ==
    /\ variant = "1.12"
    /\ alloc = TRUE
    /\ initialized = TRUE
    /\ g = init_web_game_engine_v112(
               0, <<CANVAS_WIDTH_v112 \div 2, CANVAS_HEIGHT_v112 \div 2>>)
    /\ st = ZeroStatics_v112
    /\ now = 0
    /\ ticks = 0
    /\ obs = Obs("init", 1, 0, NoRun)
    /\ hist = NoHist

\* Ticks and key events over two entities that start at the same position.
NextOverlap ==
    \/ wasm_update_web_frame(Gaps)
    \/ wasm_handle_web_key({68})
    \/ wasm_update_frame(Gaps)
    \/ wasm_handle_key({68})
    \/ wasm_update_web_frame_v112(Gaps, FrameCosts)
    \/ wasm_handle_web_key_v112({68})
SpecOverlap == (Overlap_1_8 \/ Overlap_18 \/ Overlap_v112) /\ [][NextOverlap]_vars

\* Key events and ticks of 1.8 and 18 over stores whose player can be
\* marked inactive and removed.
NextRole ==
    \/ wasm_handle_web_key({68})
    \/ wasm_update_web_frame({10})
    \/ wasm_handle_key({68})
    \/ wasm_update_frame({10})
    \/ markInactive
SpecRole == (Ready_1_8 \/ Ready_18) /\ [][NextRole]_vars

\* Frame callbacks that keep coming, over stores whose entities can be marked
\* inactive.  The host's animation loop schedules the next frame callback
\* after every one it ran; a frame callback is enabled exactly while ticks is
\* below the modelled number of ticks and adds one to it, so weak fairness of
\* the frame callback is weak fairness of the step that adds one to ticks.
TicksSpent == ticks >= (IF Is("1.12") THEN MaxTicks_v112 ELSE MaxTicks)
FrameCallback == ~TicksSpent /\ ticks' = ticks + 1
NextCompact ==
    \/ wasm_update_web_frame({10})
    \/ wasm_update_frame({10})
    \/ wasm_update_web_frame_v112({10}, FrameCosts)
    \/ markInactive
SpecCompact ==
    /\ Ready_1_8 \/ Ready_18 \/ Ready_v112
    /\ [][NextCompact]_vars
    /\ WF_ticks(FrameCallback)

\* The 1.8 particle pool under bursts, quality settings and frame callbacks
\* that keep coming, 30 ms apart.
NextPool ==
    \/ wasm_update_web_frame({30})
    \/ wasm_create_web_explosion(BurstCounts)
    \/ wasm_set_web_quality(QualityArgs)
SpecPool == Ready_1_8 /\ [][NextPool]_vars /\ WF_ticks(FrameCallback)

\* The exports of 18 and 1.8 from before the first initialization on, with
\* allocations that can fail.
NextNull ==
    \/ wasm_init_game
    \/ wasm_cleanup
    \/ wasm_update_frame({10})
    \/ wasm_handle_key({68})
    \/ wasm_pause_game
    \/ wasm_get_entity_positions
    \/ wasm_init_web_game
    \/ wasm_cleanup_web
    \/ wasm_update_web_frame({10})
    \/ wasm_handle_web_key({68})
    \/ wasm_get_web_entity_data
SpecNull == (Init_18 \/ Init_1_8) /\ [][NextNull]_vars

\* The 1.8 and 1.12 engines with adaptive quality on, under frame callbacks
\* whose frame time is above 1.2 times the budget on every tick (the gap
\* between callbacks for 1.8, the time spent inside the tick for 1.12) and
\* key events.  The browser keeps scheduling the frame callback.
NextSlow ==
    \/ wasm_update_web_frame({gp \in Gaps : gp * 1000 > (MAX_FRAME_TIME_US * 12) \div 10})
    \/ wasm_handle_web_key({68})
    \/ wasm_update_web_frame_v112({10}, {c \in FrameCosts : c > (MAX_FRAME_TIME_US * 12) \div 10})
    \/ wasm_handle_web_key_v112({68})
SpecSlow ==
    /\ Ready_1_8 \/ Ready_v112
    /\ [][NextSlow]_vars
    /\ WF_ticks(FrameCallback)

SpecLife == (Init_1_8 \/ Init_18 \/ Init_v112 \/ Init_adv) /\ [][NextLife]_vars

(***************************************************************************)
(* Properties.                                                             *)
(***************************************************************************)
Level == g.performance.quality_level
\* The lives of the active particles below particle_count, in slot order.
ActiveLives(gs) ==
    LET idx == SelectSeq([k \in 1 .. gs.particle_count |-> k - 1],
                         LAMBDA i : gs.particles[i].active)
    IN [k \in 1 .. Len(idx) |-> gs.particles[idx[k]].life]
\* The last call ran the system sys.
Ran(sys) == \E k \in 1 .. Len(obs.tr) : obs.tr[k] = sys

\* C1: entity_count stays within 0 .. MAX_ENTITIES, and a create call made
\* while entity_count = MAX_ENTITIES returns NULL and leaves entity_count and
\* every entity unchanged.
C1_EntityCapacity ==
    [][/\ g.entity_count \in 0 .. MAX_ENTITIES
       /\ g'.entity_count \in 0 .. MAX_ENTITIES
       /\ (obs'.op = "add_entity" /\ alloc /\ g.entity_count = MAX_ENTITIES)
            => (obs'.ret = -1 /\ g'.entity_count = g.entity_count
                /\ g'.entities = g.entities)]_vars

\* A create call was refused on a full store.
C1_Witness ==
    obs.op = "add_entity" /\ obs.ret = -1 /\ alloc /\ g.entity_count = MAX_ENTITIES

\* C2: particle_count stays within 0 .. MAX_PARTICLES; a burst requested with
\* r free slots adds at most r particles, none when the pool is full, and
\* leaves every particle below the previous particle_count as it was.
C2_ParticleCapacity ==
    [][/\ g.particle_count \in 0 .. MAX_PARTICLES
       /\ g'.particle_count \in 0 .. MAX_PARTICLES
       /\ (obs'.op = "explosion" /\ alloc)
            => (/\ g'.particle_count - g.particle_count
                     \in 0 .. (MAX_PARTICLES - g.particle_count)
                /\ obs'.ret = g'.particle_count - g.particle_count
                /\ \A i \in 0 .. g.particle_count - 1 :
                       g'.particles[i] = g.particles[i])
       /\ \A rnd \in ParticleRnd :
             LET r == create_web_particle_explosion(g', Center, COLLISION_BURST, rnd)
             IN /\ r.particle_count - g'.particle_count
                     \in 0 .. (MAX_PARTICLES - g'.particle_count)
                /\ \A i \in 0 .. g'.particle_count - 1 :
                       r.particles[i] = g'.particles[i]]_vars

\* A burst asked for more particles than there was room for and filled the
\* pool with fewer than the per-burst bound.
C2_Witness ==
    /\ obs.op = "explosion"
    /\ obs.arg > BurstCap
    /\ obs.ret \in 1 .. BurstCap - 1
    /\ g.particle_count = MAX_PARTICLES

\* C3: a compaction pass leaves in entities[0 .. entity_count - 1] exactly
\* the entities that were active before it, in their previous order and with
\* their fields unchanged, and entity_count is their number.
C3_Compaction ==
    Ran("cleanup")
        => /\ obs.after = SelectSeq(obs.before, LAMBDA e : e.active)
           /\ g.entity_count = Len(obs.after)
           /\ \A k \in 1 .. Len(obs.after) :
                  /\ g.entities[k - 1].name = obs.after[k].name
                  /\ g.entities[k - 1].health = obs.after[k].health

\* A compaction pass removed an inactive entity that stood between two
\* active ones.
C3_Witness ==
    /\ obs.op = "tick"
    /\ \E k \in 2 .. Len(obs.before) - 1 :
          /\ ~obs.before[k].active
          /\ obs.before[k - 1].active
          /\ obs.before[k + 1].active
    /\ Len(obs.after) = 2

\* C5: a tick delivered while the game is paused or the engine is not
\* initialized leaves entities, particles, score, camera, quality level,
\* cool-down, frame-time statistics and previous timestamp as they were.
C5_PausedTick ==
    [][(obs'.op = "tick" /\ (~initialized \/ ~alloc \/ g.paused))
          => (g' = g /\ st' = st /\ obs'.dt = -1)]_vars

\* A tick was delivered to a paused game that holds entities.
C5_Witness ==
    /\ obs.op = "tick"
    /\ alloc /\ initialized
    /\ g.paused
    /\ g.entity_count > 0
    /\ ticks >= 2

\* C8: while the quality level is Low or Medium no call adds a particle or
\* changes a particle.
C8_ParticlesOnlyAtHigh ==
    [][(alloc /\ Level < 2 /\ g'.performance.quality_level < 2)
          => (g'.particles = g.particles
              /\ g'.particle_count = g.particle_count)]_vars

\* C9: the quality level is 0, 1 or 2, also after a manual setting with any
\* integer, and one governor evaluation moves it by at most one step.
C9_QualityRange ==
    [][/\ Level \in 0 .. 2
       /\ g'.performance.quality_level \in 0 .. 2
       /\ obs'.op = "tick"
            => (/\ Abs(g'.performance.quality_level - Level) <= 1
                /\ obs'.dt >= 0 => obs'.q0 = Level)]_vars

\* The governor lowered the level from Medium to Low.
C9_Witness ==
    obs.op = "tick" /\ obs.q0 = 1 /\ obs.q = 0 /\ Level = 0

\* C10: after the governor changed the level and set a cool-down of N ticks,
\* it makes no further change during the next N ticks.
C10_Cooldown ==
    [][(obs'.op = "tick" /\ obs'.dt >= 0 /\ obs'.q # obs'.q0 /\ hist.n > 0)
          => hist.since >= hist.n]_vars

\* C4: the delta-time a tick hands to movement, physics and particles is at
\* most 33 ms, whatever the gap between two timestamps.
C4_DeltaClamp ==
    (obs.op = "tick" /\ obs.dt >= 0) => obs.dt <= MAX_DELTA_MS

\* C6: every non-paused tick runs the physics integration, at every quality
\* level.
C6_PhysicsAlways ==
    (obs.op = "tick" /\ obs.dt >= 0) => Ran("physics")

\* C7: a non-paused tick runs the collision pass if and only if the quality
\* level is Medium or High, and at Low no pair gets the collision response.
C7_CollisionGate ==
    (obs.op = "tick" /\ obs.dt >= 0)
        => /\ Ran("collision") <=> obs.q >= 1
           /\ obs.q = 0 => obs.pairs = <<>>

\* C11: the governor lowers the level only when the rolling average frame
\* time is above budget * 1.2 and raises it only when the rolling average is
\* below the recovery threshold (0.8 of the budget in 1.8, 0.7 in 1.12).
C11_RollingAverage ==
    (obs.op = "tick" /\ obs.dt >= 0)
        => /\ Level < obs.q0
                => g.performance.average_frame_time_ms > (MAX_FRAME_TIME_US * 12) \div 10
           /\ Level > obs.q0
                => g.performance.average_frame_time_ms
                       < (MAX_FRAME_TIME_US * (IF variant = "1.12" THEN 7 ELSE 8)) \div 10

\* C12: wasm_set_web_quality(q) leaves the level at q clamped to 0 .. 2 with
\* the governor switched off, and while the governor is switched off no tick
\* changes the level or switches the governor on again.
C12_ManualOverride ==
    [][Is("1.8") =>
         /\ (obs'.op = "set_quality" /\ alloc)
                => /\ Level' = web_clamp(obs'.arg, 0, 2)
                   /\ ~g'.performance.adaptive_quality
         /\ (obs'.op = "tick" /\ alloc /\ ~g.performance.adaptive_quality)
                => /\ Level' = Level
                   /\ ~g'.performance.adaptive_quality]_vars

\* A tick ran with the governor switched off, no cool-down pending, the
\* level above Low and the rolling average above budget * 1.2.
C12_Witness ==
    /\ Is("1.8") /\ obs.op = "tick" /\ obs.dt >= 0
    /\ ~g.performance.adaptive_quality
    /\ st.g_quality_adjustment_timer = 0
    /\ Level > 0
    /\ g.performance.average_frame_time_ms > (MAX_FRAME_TIME_US * 12) \div 10

C14_SymmetricSeparation ==
    (alloc /\ variant \in {"1.8", "1.12"}) =>
        \A i, j \in 0 .. MAX_ENTITIES - 1 :
            LET a == g.entities[i]
                b == g.entities[j]
                R == IF variant = "1.8" THEN COLLISION_RADIUS ELSE COLLISION_RADIUS_18
                dx == a.position.x - b.position.x
                dy == a.position.y - b.position.y
                close == Abs(dx) < R /\ Abs(dy) < R
                d == IF close THEN ISqrt(dx * dx + dy * dy) ELSE R
                m == IF variant = "1.8"
                     THEN CollidePair(Machine(g, st), i, j, CHOOSE r \in ParticleRnd : TRUE)
                     ELSE CollidePair_v112(Machine(g, st), i, j)
                a1 == m.g.entities[i]
                b1 == m.g.entities[j]
                ex == a1.position.x - b1.position.x
                ey == a1.position.y - b1.position.y
            IN (i < j /\ j < g.entity_count /\ a.active /\ b.active
                /\ d < R /\ d > MIN_DISTANCE)
               => /\ a1.position.x + b1.position.x = a.position.x + b.position.x
                  /\ a1.position.y + b1.position.y = a.position.y + b.position.y
                  /\ Abs(ex) <= R + 10 /\ Abs(ey) <= R + 10
                  /\ Abs(ISqrt(ex * ex + ey * ey) - R) <= 10

\* C15: every tick that is not paused takes its delta-time off the life of
\* every active particle and deactivates the particle when the life reaches
\* 0, so a particle of life L is active exactly while the delta-times of the
\* ticks since its creation sum to less than L; no inactive particle comes
\* back: the active particles after the tick are the aged survivors, in
\* order, followed by the particles created during the tick.
C15_ParticleLife ==
    [][(obs'.op = "tick" /\ obs'.dt >= 0 /\ variant \in {"1.8", "1.12"})
         => LET old == ActiveLives(g)
                aged == SelectSeq([k \in 1 .. Len(old) |-> old[k] - obs'.dt],
                                  LAMBDA l : l > 0)
                new == ActiveLives(g')
            IN /\ Len(new) >= Len(aged)
               /\ SubSeq(new, 1, Len(aged)) = aged]_vars

\* C16: two runs of two ticks from the same state with the same timestamps
\* end with the same entity count, positions and velocities, whatever
\* rand() returns and whatever emscripten_get_now() reads inside the ticks.
C16_Deterministic ==
    (alloc /\ initialized /\ variant \in {"1.8", "1.12"}) =>
        \A gap \in Gaps :
            LET Draws == IF variant = "1.8"
                         THEN [life : {ParticleLife, 2 * ParticleLife},
                               speed : {60000, 140000}]
                         ELSE FrameCosts
                Tick(gs, s, t, d) ==
                    IF variant = "1.8"
                    THEN update_web_game_logic(TRUE, Machine(gs, s), t, d)
                    ELSE update_web_game_logic_v112(Machine(gs, s), t, d)
                Run(d1, d2) ==
                    LET m1 == Tick(g, st, now + gap, d1)
                    IN Tick(m1.g, m1.st, now + 2 * gap, d2).g
                Moving(gs) ==
                    <<gs.entity_count,
                      [i \in 0 .. MAX_ENTITIES - 1 |->
                          IF i < gs.entity_count
                          THEN <<gs.entities[i].position, gs.entities[i].velocity>>
                          ELSE <<>>]>>
                first == CHOOSE d \in Draws : TRUE
                reference == Moving(Run(first, first))
            IN \A d1, d2 \in Draws : Moving(Run(d1, d2)) = reference

\* C17: every record an entity export call writes was read from a slot
\* below entity_count that holds an active entity.
C17_ExportLive ==
    obs.op = "export"
        => \A k \in 1 .. Len(obs.out) :
               /\ obs.out[k].slot < g.entity_count
               /\ g.entities[obs.out[k].slot].active

\* C18: an initialize call returns 1 exactly when the allocation it made
\* succeeded (the state pointer it leaves is not NULL), and 0 otherwise.
C18_InitResult ==
    obs.op = "init" => (obs.ret = 1 <=> alloc)

\* C19: a key event changes no entity: positions and velocities are the
\* same before and after the call.
C19_InputBuffered ==
    [][obs'.op = "key" => g'.entities = g.entities]_vars

\* C20: a tick that does not compact the entity array leaves every entity
\* that was inactive on entry exactly as it was (position, velocity,
\* acceleration), does not move the camera target when the entity it would
\* follow is inactive, and awards no score when fewer than two entities are
\* active.
C20_InactiveUntouched ==
    [][(obs'.op = "tick" /\ obs'.dt >= 0 /\ ~Ran("cleanup")'
        /\ variant \in {"1.8", "1.12"})
         => LET idle == {i \in 0 .. MAX_ENTITIES - 1 :
                            i < g.entity_count /\ ~g.entities[i].active}
                live == {i \in 0 .. MAX_ENTITIES - 1 :
                            i < g.entity_count /\ g.entities[i].active}
            IN /\ \A i \in idle : g'.entities[i] = g.entities[i]
               /\ Cardinality(live) < 2 => g'.score = g.score
               /\ (variant = "1.8"
                   /\ \A i \in live : g.entities[i].tag # "Player")
                      => g'.camera.target = g.camera.target
               /\ (variant = "1.12" /\ 0 \in idle)
                      => g'.camera_target = g.camera_target]_vars

\* C21: the entity a creation call returns holds the creation arguments and
\* the defaults (zero velocity, health 100, active, tag Default) in every
\* field, also when its slot held another entity before; after a reset the
\* player and the environment entities hold the defaults as well.
C21_FreshEntity ==
    /\ (obs.op = "add_entity" /\ obs.ret >= 0)
         => \E pos \in AddPositions :
               g.entities[obs.ret] =
                   [position |-> web_vec2_create(pos[1], pos[2]),
                    velocity |-> ZeroVec, health |-> 100, texture_id |-> 1,
                    active |-> TRUE, name |-> "Ext", tag |-> "Default"]
    /\ (obs.op = "reset" /\ alloc)
         => /\ g.entity_count = 1 + ResetEnvCount
            /\ g.entities[0] =
                   [position |-> Center, velocity |-> ZeroVec, health |-> 100,
                    texture_id |-> 0, active |-> TRUE, name |-> "Player",
                    tag |-> "Player"]
            /\ \A i \in 1 .. ResetEnvCount :
                   /\ g.entities[i].velocity = ZeroVec
                   /\ g.entities[i].health = 100
                   /\ g.entities[i].active
                   /\ g.entities[i].tag = "Environment"

\* A creation call returned a slot that an entity of the initial population
\* occupied before.
C21_Witness ==
    /\ Is("1.8")
    /\ obs.op = "add_entity"
    /\ obs.ret >= 0
    /\ obs.ret <= InitEnvCount

\* C22: a burst request made in any reachable state adds at most the
\* per-call ceiling of particles, whatever count it asks for, and adds none
\* when the count is zero or negative.
C22_BurstCeiling ==
    (alloc /\ variant \in {"1.8", "112"})
        => \A count \in BurstCounts \cup {-1}, rnd \in ParticleRnd :
              LET r == IF Is("112")
                       THEN create_particle_explosion(g, ZeroVec3, count, rnd)
                       ELSE create_web_particle_explosion(g, Center, count, rnd)
                  added == r.particle_count - g.particle_count
              IN /\ added \in 0 .. BurstCap
                 /\ count <= 0 => added = 0

\* C23: while the player entity created by init or reset is active it stays
\* at index 0: a tick (with or without compaction), an entity creation or
\* the removal mark of another entity leaves an active entity named Player
\* at index 0, a reset puts one there, and no active entity named Player is
\* ever found at another index of the live array.
C23_PlayerFirst ==
    [][/\ (/\ variant \in {"1.8", "18"}
           /\ alloc
           /\ g.entity_count > 0
           /\ g.entities[0].active
           /\ g.entities[0].name = "Player"
           /\ \/ obs'.op \in {"tick", "add_entity"}
              \/ obs'.op = "mark_inactive" /\ obs'.arg # 0)
            => /\ g'.entity_count > 0
               /\ g'.entities[0].active
               /\ g'.entities[0].name = "Player"
       /\ (Is("1.8") /\ alloc /\ obs'.op = "reset")
            => /\ g'.entity_count > 0
               /\ g'.entities[0].active
               /\ g'.entities[0].name = "Player"
       /\ (variant \in {"1.8", "18"} /\ alloc')
            => \A i \in 1 .. MAX_ENTITIES - 1 :
                  i < g'.entity_count
                      => ~(g'.entities[i].active /\ g'.entities[i].name = "Player")]_vars

\* A compaction pass removed an entity and the active player is at index 0
\* of the array it left.
C23_Witness ==
    /\ obs.op = "tick"
    /\ Ran("cleanup")
    /\ Len(obs.after) < Len(obs.before)
    /\ Len(obs.after) >= 2
    /\ g.entities[0].active
    /\ g.entities[0].name = "Player"

\* C24: the delta-time a tick hands to its systems is the gap between this
\* tick's timestamp and the previously recorded one (time scale 1), clamped
\* to the maximum; it does not depend on earlier gaps.
C24_DeltaFromGap ==
    (obs.op = "tick" /\ obs.dt >= 0)
        => obs.dt = web_clamp(obs.arg, 0, MAX_DELTA_MS)

\* C25: the systems a tick runs are decided by the quality level present
\* when the tick started, not by the level the governor chooses during that
\* tick: collision runs iff the entry level is Medium or High, the particle
\* pass iff it is High.
C25_GovernorLast ==
    (obs.op = "tick" /\ obs.dt >= 0 /\ variant \in {"1.8", "1.12"})
        => /\ Ran("collision") <=> obs.q0 >= 1
           /\ Ran("particles") <=> obs.q0 >= 2

\* C26: the systems of a tick run in the order physics, collision,
\* particles, compaction: no system of this list runs before one that
\* precedes it in the list, and no system runs after the compaction pass.
C26_SystemOrder ==
    obs.op = "tick"
        => LET order == <<"physics", "collision", "particles", "cleanup">>
               Rank(sys) == CHOOSE r \in 1 .. Len(order) : order[r] = sys
               listed == {k \in 1 .. Len(obs.tr) :
                             \E r \in 1 .. Len(order) : order[r] = obs.tr[k]}
           IN /\ \A i, j \in listed :
                     i < j => Rank(obs.tr[i]) <= Rank(obs.tr[j])
              /\ \A k \in 1 .. Len(obs.tr) :
                     obs.tr[k] = "cleanup" => k = Len(obs.tr)

\* C27: no position and no velocity of a live entity is ever not-a-number,
\* also after the collision pass has tested two active entities that are at
\* the same position.
C27_ZeroDistance ==
    alloc =>
        \A i \in 0 .. MAX_ENTITIES - 1 :
            i < g.entity_count
                => IF Is("18")
                   THEN /\ ~IsNaN(g.entities[i].x)
                        /\ ~IsNaN(g.entities[i].y)
                        /\ ~IsNaN(g.entities[i].velocity_x)
                        /\ ~IsNaN(g.entities[i].velocity_y)
                   ELSE /\ g.entities[i].position.x \in Int
                        /\ g.entities[i].position.y \in Int
                        /\ g.entities[i].velocity.x \in Int
                        /\ g.entities[i].velocity.y \in Int

\* C28: in every reachable state of the 1.8 and 1.12 engines, the collision
\* test of a pair of active entities adds the fixed reward to the score exactly when the pair is
\* closer than the collision radius and one of the two is the player, at
\* any distance below the radius and whichever of the two the player is;
\* any other pair adds nothing.
C28_ScorePerPair ==
    alloc =>
        \A i, j \in 0 .. MAX_ENTITIES - 1 :
            (i < j /\ j < g.entity_count /\ g.entities[i].active /\ g.entities[j].active)
                => IF Is("1.8")
                   THEN LET a == g.entities[i]
                            b == g.entities[j]
                            dx == a.position.x - b.position.x
                            dy == a.position.y - b.position.y
                            close == /\ Abs(dx) < COLLISION_RADIUS
                                     /\ Abs(dy) < COLLISION_RADIUS
                                     /\ dx * dx + dy * dy < COLLISION_RADIUS * COLLISION_RADIUS
                        IN \A rnd \in ParticleRnd :
                              CollidePair(Machine(g, st), i, j, rnd).g.score - g.score
                                  = IF close /\ (a.tag = "Player" \/ b.tag = "Player")
                                    THEN COLLISION_SCORE ELSE 0
                   ELSE IF Is("1.12")
                   THEN LET a == g.entities[i]
                            b == g.entities[j]
                            dx == a.position.x - b.position.x
                            dy == a.position.y - b.position.y
                            close == /\ Abs(dx) < COLLISION_RADIUS_18
                                     /\ Abs(dy) < COLLISION_RADIUS_18
                                     /\ dx * dx + dy * dy
                                            < COLLISION_RADIUS_18 * COLLISION_RADIUS_18
                        IN CollidePair_v112(Machine(g, st), i, j).g.score - g.score
                               = IF close /\ (a.tag = "Player" \/ b.tag = "Player")
                                 THEN COLLISION_SCORE_v112 ELSE 0
                   ELSE TRUE

\* C29: input and camera follow apply to the player entity only: a key
\* event changes no entity other than the player, and a tick that ends with
\* no active player in the live array leaves the camera where it was, also
\* when another entity has taken index 0.
C29_PlayerRoleOnly ==
    [][/\ (Is("18") /\ alloc /\ initialized /\ obs'.op = "key")
            => \A i \in 0 .. MAX_ENTITIES - 1 :
                  g.entities[i].name # "Player" => g'.entities[i] = g.entities[i]
       /\ (Is("18") /\ alloc /\ obs'.op = "tick"
           /\ \A i \in 0 .. MAX_ENTITIES - 1 :
                  i < g'.entity_count
                      => ~(g'.entities[i].active /\ g'.entities[i].name = "Player"))
            => (g'.camera_x = g.camera_x /\ g'.camera_y = g.camera_y)
       /\ (Is("1.8") /\ alloc /\ obs'.op = "key")
            => g'.entities = g.entities
       /\ (Is("1.8") /\ alloc /\ obs'.op = "tick"
           /\ \A i \in 0 .. MAX_ENTITIES - 1 :
                  i < g.entity_count
                      => ~(g.entities[i].active /\ g.entities[i].tag = "Player"))
            => g'.camera.target = g.camera.target]_vars

\* C30: when a tick that ran returns, the acceleration of every live entity
\* is zero, at every quality level, so no force applied in one tick is
\* integrated in a later one.
C30_ForcesReset ==
    (obs.op = "tick" /\ obs.dt >= 0 /\ variant \in {"1.12", "112"})
        => \A i \in 0 .. MAX_ENTITIES - 1 :
              i < g.entity_count => g.entities[i].acceleration = ZeroVec3

C32_PoolReclaimed ==
    (Is("1.8") /\ ticks = 0 /\ g.particle_count = MAX_PARTICLES)
        ~> (g.particle_count < MAX_PARTICLES)

\* Positions of one more entity: left of and above the playfield, next to
\* the spawn point, far to the right of the playfield.
GridProbes == {<<-5000000, -1>>, <<965000, 545000>>, <<2000000000, 300000>>}

\* C33: the grid built from the entities of any reachable 1.12 state, with
\* one more entity created at any probe position, has every cell index
\* inside the grid, holds at most GridCellCap entities per cell, holds only
\* active entities whose current position lies in the cell, each once, and
\* leaves an active entity out only when its cell was already full of
\* entities with smaller indices.
C33_GridBuild ==
    (Is("1.12") /\ alloc) =>
        \A p \in GridProbes :
            LET gs == create_web_entity_v112(TRUE, g, vec3_create(p[1], p[2], 0),
                                             "Environment").g
                cells == 0 .. GRID_SIZE * GRID_SIZE - 1
                live == {i \in 0 .. MAX_ENTITIES - 1 : i < gs.entity_count}
            IN /\ \A i \in live :
                      /\ GridAxis(gs.entities[i].position.x) \in 0 .. GRID_SIZE - 1
                      /\ GridAxis(gs.entities[i].position.y) \in 0 .. GRID_SIZE - 1
                      /\ GridCell(gs.entities[i]) \in cells
               /\ \A k \in cells :
                      LET bucket == GridMembers(gs, k, 0, <<>>)
                      IN /\ Len(bucket) <= GridCellCap
                         /\ \A n \in 1 .. Len(bucket) :
                                /\ bucket[n] \in live
                                /\ gs.entities[bucket[n]].active
                                /\ GridCell(gs.entities[bucket[n]]) = k
                                /\ n > 1 => bucket[n - 1] < bucket[n]
               /\ \A i \in live :
                      gs.entities[i].active
                          => LET bucket == GridMembers(gs, GridCell(gs.entities[i]), 0, <<>>)
                             IN \/ \E n \in 1 .. Len(bucket) : bucket[n] = i
                                \/ /\ Len(bucket) = GridCellCap
                                   /\ \A n \in 1 .. Len(bucket) : bucket[n] < i

\* A tick ran the collision pass over a grid in which the player's cell is
\* filled to its capacity.
C33_Witness ==
    /\ Is("1.12")
    /\ obs.op = "tick"
    /\ Ran("collision")
    /\ g.entity_count > 0
    /\ Len(GridMembers(g, GridCell(g.entities[0]), 0, <<>>)) = GridCellCap

\* C34: no key-input call goes through a NULL state pointer, whatever
\* initializations (with failed allocations), cleanups and ticks came
\* before it.
C34_NoNullDeref ==
    obs.op = "key" => obs.ret # NULL_DEREF

\* C35: the frame-time sample a tick records is the gap since the previous
\* frame callback, also when that callback and others before it came while
\* the game was paused; and a tick whose own gap and whose recorded samples
\* are all within the frame budget does not lower the quality level.
C35_PauseNotSampled ==
    [][(Is("1.8") /\ obs'.op = "tick" /\ obs'.dt >= 0)
          => /\ st'.g_frame_time_buffer[st.g_frame_time_index] = obs'.arg
             /\ (/\ obs'.arg * 1000 <= MAX_FRAME_TIME_US
                 /\ \A i \in 0 .. BufLen - 1 :
                        st.g_frame_time_buffer[i] * 1000 <= MAX_FRAME_TIME_US)
                    => g'.performance.quality_level >= Level]_vars

\* C36: after an entity export of 1.8 the buffer holds exactly one record
\* for every active entity with index below entity_count, in index order,
\* also when the store holds MAX_ENTITIES active entities.
C36_ExportComplete ==
    [][(Is("1.8") /\ obs'.op = "export" /\ alloc)
          => /\ {obs'.out[k].slot : k \in 1 .. Len(obs'.out)}
                   = {i \in 0 .. g.entity_count - 1 : g.entities[i].active}
             /\ \A k \in 1 .. Len(obs'.out) - 1 :
                    obs'.out[k].slot < obs'.out[k + 1].slot]_vars

\* C37: with adaptive quality enabled and the frame time above 1.2 times the
\* budget on every tick, the quality level of the 1.8 and 1.12 engines
\* eventually reaches Low and stays at Low from then on.
C37_ReachesLow == <>[](Level = 0)

\* An over-budget tick that starts at Low and ends at Low.
C37_Witness ==
    /\ obs.op = "tick" /\ obs.dt >= 0
    /\ IF Is("1.8") THEN g.performance.adaptive_quality ELSE g.adaptive_quality
    /\ obs.q0 = 0 /\ Level = 0

\* C38: a reset of the 1.8 engine on an allocated state leaves the player
\* and the reset's environment entities as the only entities, with an
\* active entity tagged Player at index 0, no particles, score 0, the game
\* not paused and the governor cool-down at 0, and leaves the quality level
\* and the adaptive-quality flag as they were.
C38_Reset ==
    [][(Is("1.8") /\ obs'.op = "reset" /\ alloc)
          => /\ g'.entity_count = 1 + ResetEnvCount
             /\ g'.entities[0].active
             /\ g'.entities[0].tag = "Player"
             /\ g'.particle_count = 0
             /\ g'.score = 0
             /\ ~g'.paused
             /\ st'.g_quality_adjustment_timer = 0
             /\ g'.performance.quality_level = Level
             /\ g'.performance.adaptive_quality = g.performance.adaptive_quality]_vars

\* A reset that found the level below High with adaptive quality off.
C38_Witness ==
    /\ Is("1.8") /\ alloc /\ obs.op = "reset"
    /\ g.entity_count = 1 + ResetEnvCount
    /\ Level < 2
    /\ ~g.performance.adaptive_quality

====
